---- MODULE Spec2Model ----
(***************************************************************************)
(* Model of the WayrApp user-persistence core: the value objects, the User *)
(* entity and the Prisma-backed UserRepository.  A JavaScript string is a   *)
(* TLA+ string; CharsOf gives its characters, on which toLowerCase, trim   *)
(* and the validation patterns are computed.                               *)
(***************************************************************************)
EXTENDS Integers, Sequences, FiniteSets, TLC

(* ------------------------------ bounds --------------------------------- *)
MaxId == 3
MaxTime == 1
MaxCalls == 2

(* ------------------------------ text ----------------------------------- *)
UpperLetters == <<"A","B","C","D","E","F","G","H","I","J","K","L","M",
                  "N","O","P","Q","R","S","T","U","V","W","X","Y","Z">>
LowerLetters == <<"a","b","c","d","e","f","g","h","i","j","k","l","m",
                  "n","o","p","q","r","s","t","u","v","w","x","y","z">>
Digits == {"0","1","2","3","4","5","6","7","8","9"}
WhiteSpace == {" ", "\t", "\n", "\r"}
\* the grave accent character, which cannot be written in a string literal
BackTick == "grave"
Range(s) == {s[i] : i \in DOMAIN s}
AlphaNum == Range(UpperLetters) \cup Range(LowerLetters) \cup Digits

SetMin(S) == CHOOSE x \in S : \A y \in S : x <= y
SetMax(S) == CHOOSE x \in S : \A y \in S : x >= y

LowerChar(c) ==
  IF \E i \in DOMAIN UpperLetters : UpperLetters[i] = c
    THEN LowerLetters[CHOOSE i \in DOMAIN UpperLetters : UpperLetters[i] = c]
    ELSE c

toLowerCase(s) == [i \in 1..Len(s) |-> LowerChar(s[i])]

trim(s) ==
  LET keep == {i \in 1..Len(s) : s[i] \notin WhiteSpace}
  IN IF keep = {} THEN <<>> ELSE SubSeq(s, SetMin(keep), SetMax(keep))

startsWith(s, p) == Len(s) >= Len(p) /\ SubSeq(s, 1, Len(p)) = p
endsWith(s, p) == Len(s) >= Len(p) /\ SubSeq(s, Len(s) - Len(p) + 1, Len(s)) = p
includes(s, p) == \E i \in 1..(Len(s) - Len(p) + 1) : SubSeq(s, i, i + Len(p) - 1) = p

(* ------------------------------ strings -------------------------------- *)
HashBody(c) == [i \in 1..53 |-> c]

\* the characters of every string the model handles
CharsOf ==
  ("a@x" :> <<"a","@","x">>) @@
  ("A@x" :> <<"A","@","x">>) @@
  ("b@x" :> <<"b","@","x">>) @@
  (" b@x " :> <<" ","b","@","x"," ">>) @@
  ("B@x" :> <<"B","@","x">>) @@
  ("abc" :> <<"a","b","c">>) @@
  ("ABC" :> <<"A","B","C">>) @@
  ("unknown" :> <<"u","n","k","n","o","w","n">>) @@
  ("$2b$12$hhhhhhhhhhhhhhhhhhhhhhhhhhhhhhhhhhhhhhhhhhhhhhhhhhhhh" :>
     <<"$","2","b","$","1","2","$">> \o HashBody("h")) @@
  ("$2a$04$/////////////////////////////////////////////////////" :>
     <<"$","2","a","$","0","4","$">> \o HashBody("/")) @@
  (" $2a$04$/////////////////////////////////////////////////////" :>
     <<" ","$","2","a","$","0","4","$">> \o HashBody("/")) @@
  ("$2a$10$hhhhhhhhhhhhhhhhhhhhhhhhhhhhhhhhhhhhhhhhhhhhhhhhhhhh" :>
     <<"$","2","a","$","1","0","$">> \o SubSeq(HashBody("h"), 1, 52)) @@
  ("$2y$31$....................................................." :>
     <<"$","2","y","$","3","1","$">> \o HashBody(".")) @@
  ("$2x$04$hhhhhhhhhhhhhhhhhhhhhhhhhhhhhhhhhhhhhhhhhhhhhhhhhhhhh" :>
     <<"$","2","x","$","0","4","$">> \o HashBody("h")) @@
  ("$2b$03$hhhhhhhhhhhhhhhhhhhhhhhhhhhhhhhhhhhhhhhhhhhhhhhhhhhhh" :>
     <<"$","2","b","$","0","3","$">> \o HashBody("h")) @@
  ("$2b$32$hhhhhhhhhhhhhhhhhhhhhhhhhhhhhhhhhhhhhhhhhhhhhhhhhhhhh" :>
     <<"$","2","b","$","3","2","$">> \o HashBody("h")) @@
  ("$2c$10$hhhhhhhhhhhhhhhhhhhhhhhhhhhhhhhhhhhhhhhhhhhhhhhhhhhhh" :>
     <<"$","2","c","$","1","0","$">> \o HashBody("h")) @@
  ("$2b$10$hhhhhhhhhhhhhhhhhhhhhhhhhhhhhhhhhhhhhhhhhhhhhhhhhhhhhh" :>
     <<"$","2","b","$","1","0","$">> \o HashBody("h") \o <<"h">>) @@
  ("$2b$1$hhhhhhhhhhhhhhhhhhhhhhhhhhhhhhhhhhhhhhhhhhhhhhhhhhhhh" :>
     <<"$","2","b","$","1","$">> \o HashBody("h")) @@
  ("$2b$10$hhhhhhhhhhhhhhhhhhhhhhhhhhhhhhhhhhhhhhhhhhhhhhhhhhh" :>
     <<"$","2","b","$","1","0","$">> \o SubSeq(HashBody("h"), 1, 51)) @@
  ("        " :> <<" "," "," "," "," "," "," "," ">>) @@
  ("aaaaaaaa" :> <<"a","a","a","a","a","a","a","a">>) @@
  ("AAAAAAAA" :> <<"A","A","A","A","A","A","A","A">>) @@
  ("aAaAaAaA" :> <<"a","A","a","A","a","A","a","A">>) @@
  ("11111111" :> <<"1","1","1","1","1","1","1","1">>) @@
  ("a1a1a1a1" :> <<"a","1","a","1","a","1","a","1">>) @@
  ("A1A1A1A1" :> <<"A","1","A","1","A","1","A","1">>) @@
  ("aA1aA1aA" :> <<"a","A","1","a","A","1","a","A">>) @@
  ("!!!!!!!!" :> <<"!","!","!","!","!","!","!","!">>) @@
  ("a!a!a!a!" :> <<"a","!","a","!","a","!","a","!">>) @@
  ("A!A!A!A!" :> <<"A","!","A","!","A","!","A","!">>) @@
  ("aA!aA!aA" :> <<"a","A","!","a","A","!","a","A">>) @@
  ("1!1!1!1!" :> <<"1","!","1","!","1","!","1","!">>) @@
  ("a1!a1!a1" :> <<"a","1","!","a","1","!","a","1">>) @@
  ("A1!A1!A1" :> <<"A","1","!","A","1","!","A","1">>) @@
  ("aA1!aA1!" :> <<"a","A","1","!","a","A","1","!">>) @@
  ("ValidPass123!" :> <<"V","a","l","i","d","P","a","s","s","1","2","3","!">>) @@
  ("password" :> <<"p","a","s","s","w","o","r","d">>) @@
  ("Abcdef1!~" :> <<"A","b","c","d","e","f","1","!","~">>) @@
  ("Abcdef1!<" :> <<"A","b","c","d","e","f","1","!","<">>) @@
  ("Only1=aB!" :> <<"O","n","l","y","1","=","a","B","!">>) @@
  ("Ab1!" :> <<"A","b","1","!">>) @@
  ("Pass word1!" :> <<"P","a","s","s"," ","w","o","r","d","1","!">>) @@
  ("A1!aaaaaaaaaaaaaaaaaaaaaaaaaaaaaaaaaaaaaaaaaaaaaaaaaaaaaaaaaaaaaaaaaaaaaaaaaaaaaaaaaaaaaaaaaaaaaaaaa" :>
     <<"A","1","!">> \o [i \in 1..97 |-> "a"]) @@
  ("A1!aaaaaaaaaaaaaaaaaaaaaaaaaaaaaaaaaaaaaaaaaaaaaaaaaaaaaaaaaaaaaaaaaaaaaaaaaaaaaaaaaaaaaaaaaaaaaaaaaa" :>
     <<"A","1","!">> \o [i \in 1..98 |-> "a"])

Strings == DOMAIN CharsOf
Chars(s) == CharsOf[s]
Str(t) == CHOOSE s \in Strings : CharsOf[s] = t
THROW == "THROW"

(* ------------------------------ Email ---------------------------------- *)
EmailLocalChars == AlphaNum \cup {".","!","#","$","%","&","'","*","+","/",
                                  "=","?","^","_",BackTick,"{","|","}","~","-"}

\* one domain of the emailRegex: labels separated by single dots, each label
\* of 1..63 characters, alphanumeric at both ends, hyphens allowed inside
EmailDomainOk(d) ==
  /\ Len(d) >= 1
  /\ \A i \in 1..Len(d) : d[i] \in AlphaNum \cup {"-", "."}
  /\ \A i \in 1..Len(d) :
       (d[i] # "." /\ (i = 1 \/ i = Len(d) \/ d[i-1] = "." \/ d[i+1] = "."))
          => d[i] \in AlphaNum
  /\ d[1] # "." /\ d[Len(d)] # "."
  /\ \A i \in 1..(Len(d) - 1) : ~(d[i] = "." /\ d[i+1] = ".")
  /\ \A i \in 1..Len(d) : \A j \in i..Len(d) :
       (\A k \in i..j : d[k] # ".") => j - i + 1 <= 63

emailRegexTest(s) ==
  LET ats == {i \in 1..Len(s) : s[i] = "@"}
  IN /\ Cardinality(ats) = 1
     /\ LET at == CHOOSE i \in ats : TRUE
        IN /\ at > 1
           /\ \A i \in 1..(at - 1) : s[i] \in EmailLocalChars
           /\ EmailDomainOk(SubSeq(s, at + 1, Len(s)))

isValid(email) ==
  LET trimmedEmail == trim(email)
  IN /\ Len(email) > 0
     /\ Len(trimmedEmail) > 0
     /\ emailRegexTest(trimmedEmail)
     /\ Len(trimmedEmail) <= 254
     /\ ~startsWith(trimmedEmail, <<".">>)
     /\ ~endsWith(trimmedEmail, <<".">>)

\* The value new Email(s) holds, for every string s, THROW when it throws.
\* First a constructor that trims and leaves the letters as they are.
EmailValueKeepsCase ==
  [s \in Strings |-> IF isValid(Chars(s)) THEN Str(trim(Chars(s))) ELSE THROW]

EmailValue ==
  [s \in Strings |->
     IF isValid(Chars(s)) THEN Str(trim(toLowerCase(Chars(s)))) ELSE THROW]

EmailIsValid(value) == EmailValue[value] # THROW
Email(value) == [type |-> "Email", value |-> EmailValue[value]]
EmailEquals(email, other) == email.value = other.value

(* ------------------------------ Username ------------------------------- *)
UsernameChars == AlphaNum \cup {"_", "-"}

validate(value) ==
  /\ Len(value) > 0 /\ Len(trim(value)) > 0
  /\ Len(value) >= 3
  /\ Len(value) <= 30
  /\ \A i \in 1..Len(value) : value[i] \in UsernameChars

UsernameValue == [s \in Strings |-> IF validate(Chars(s)) THEN s ELSE THROW]

UsernameIsValid(value) == UsernameValue[value] # THROW
Username(value) == [type |-> "Username", value |-> UsernameValue[value]]

(* ------------------------------ PlainPassword -------------------------- *)
MIN_LENGTH == 8
MAX_LENGTH == 100
ALLOWED_SPECIAL_CHARS ==
  {"!","@","#","$","%","^","&","*","(",")","_","+","-","=","[","]","{","}",
   "|",";",":",",",".","/","?"}
PasswordDangerousChars == {"<", ">", "\"", "'", BackTick, "\t", "\n", "\r"}

hasLowerCase(value) == \E i \in 1..Len(value) : value[i] \in Range(LowerLetters)
hasUpperCase(value) == \E i \in 1..Len(value) : value[i] \in Range(UpperLetters)
hasNumber(value) == \E i \in 1..Len(value) : value[i] \in Digits
hasSpecialChar(value) == \E i \in 1..Len(value) : value[i] \in ALLOWED_SPECIAL_CHARS
hasDangerousChars(value) == \E i \in 1..Len(value) : value[i] \in PasswordDangerousChars

hasInjectionPatterns(value) ==
  LET low == toLowerCase(value)
  IN \/ includes(low, <<"j","a","v","a","s","c","r","i","p","t",":">>)
     \/ includes(low, <<"d","a","t","a",":">>)
     \/ includes(low, <<"v","b","s","c","r","i","p","t",":">>)
     \/ includes(low, <<"<","s","c","r","i","p","t">>)
     \/ includes(low, <<"<","/","s","c","r","i","p","t">>)
     \/ includes(low, <<"e","v","a","l","(">>)
     \/ includes(low, <<"e","x","p","r","e","s","s","i","o","n","(">>)
     \/ \E i \in 1..Len(low) : \E j \in (i + 3)..Len(low) :
            /\ low[i] = "o" /\ low[i+1] = "n" /\ low[j] = "="
            /\ \E m \in (i + 2)..(j - 1) :
                 /\ \A k \in (i + 2)..m : low[k] \in AlphaNum \cup {"_"}
                 /\ \A k \in (m + 1)..(j - 1) : low[k] \in WhiteSpace

isValidLength(value) == Len(value) >= MIN_LENGTH /\ Len(value) <= MAX_LENGTH

isSecurePassword(value) ==
  /\ ~hasDangerousChars(value)
  /\ ~hasInjectionPatterns(value)
  /\ Len(value) > 0
  /\ \A i \in 1..Len(value) :
       value[i] \in AlphaNum \cup ALLOWED_SPECIAL_CHARS \cup WhiteSpace

\* the requirements in the order the method pushes them (the messages are
\* written here without their accents)
Requirements ==
  <<"al menos una letra minuscula (a-z)", "al menos una letra mayuscula (A-Z)",
    "al menos un numero (0-9)", "al menos un caracter especial">>

RequirementMet(value, n) ==
  CASE n = 1 -> hasLowerCase(value) [] n = 2 -> hasUpperCase(value)
    [] n = 3 -> hasNumber(value) [] n = 4 -> hasSpecialChar(value)

\* a method that gives up at the first requirement it finds missing
getMissingRequirementsFirstOnly(value) ==
  LET miss == {n \in 1..4 : ~RequirementMet(value, n)}
  IN IF miss = {} THEN <<>> ELSE <<Requirements[SetMin(miss)]>>

getMissingRequirements(value) ==
  SelectSeq(Requirements,
            LAMBDA r : \E n \in 1..4 : Requirements[n] = r /\ ~RequirementMet(value, n))

\* validatePassword: the error it throws, NoError when it returns
NoError == [kind |-> "none", missing |-> <<>>]
validatePassword(value) ==
  IF Len(value) = 0 THEN [kind |-> "type", missing |-> <<>>]
  ELSE IF ~isValidLength(value) THEN [kind |-> "length", missing |-> <<>>]
  ELSE IF ~isSecurePassword(value) THEN [kind |-> "security", missing |-> <<>>]
  ELSE IF Len(getMissingRequirements(value)) > 0
    THEN [kind |-> "missing", missing |-> getMissingRequirements(value)]
  ELSE NoError

PlainPassword(value) == [type |-> "PlainPassword", value |-> value]

(* ------------------------------ HashedPassword ------------------------- *)
HashBodyChars == AlphaNum \cup {".", "/"}
HashDangerousChars == {"<", ">", "&", "\"", "'", BackTick, "\t", "\n", "\r"}

DigitValue(c) ==
  CASE c = "0" -> 0 [] c = "1" -> 1 [] c = "2" -> 2 [] c = "3" -> 3
    [] c = "4" -> 4 [] c = "5" -> 5 [] c = "6" -> 6 [] c = "7" -> 7
    [] c = "8" -> 8 [] c = "9" -> 9

isValidHashLength(value) == Len(value) >= 59 /\ Len(value) <= 60

isValidHashFormat(value) ==
  /\ Len(value) = 60
  /\ value[1] = "$" /\ value[2] = "2" /\ value[3] \in {"a","b","x","y"}
  /\ value[4] = "$" /\ value[5] \in Digits /\ value[6] \in Digits
  /\ value[7] = "$"
  /\ \A i \in 8..60 : value[i] \in HashBodyChars

isSecureHash(value) ==
  LET low == toLowerCase(value)
  IN /\ \A i \in 1..Len(value) : value[i] \notin HashDangerousChars
     /\ ~includes(low, <<"j","a","v","a","s","c","r","i","p","t",":">>)
     /\ ~includes(low, <<"d","a","t","a",":">>)
     /\ ~includes(low, <<"v","b","s","c","r","i","p","t",":">>)
     /\ ~includes(low, <<"<","s","c","r","i","p","t">>)
     /\ ~includes(low, <<"<","/","s","c","r","i","p","t">>)
     /\ ~includes(low, <<"e","v","a","l","(">>)
     /\ ~includes(low, <<"e","x","p","r","e","s","s","i","o","n","(">>)
     /\ ~\E i \in 1..Len(low) : \E j \in (i + 3)..Len(low) :
            /\ low[i] = "o" /\ low[i+1] = "n" /\ low[j] = "="
            /\ \E m \in (i + 2)..(j - 1) :
                 /\ \A k \in (i + 2)..m : low[k] \in AlphaNum \cup {"_"}
                 /\ \A k \in (m + 1)..(j - 1) : low[k] \in WhiteSpace

getBcryptCostFromValue(value) == 10 * DigitValue(value[5]) + DigitValue(value[6])

validateHash(value) ==
  LET trimmedValue == trim(value)
  IN /\ Len(value) > 0
     /\ isValidHashLength(trimmedValue)
     /\ isSecureHash(trimmedValue)
     /\ isValidHashFormat(trimmedValue)
     /\ getBcryptCostFromValue(trimmedValue) >= 4
     /\ getBcryptCostFromValue(trimmedValue) <= 31

HashValue ==
  [s \in Strings |->
     IF validateHash(Chars(s)) THEN Str(trim(Chars(s))) ELSE THROW]

HashIsValid(value) == HashValue[value] # THROW
HashedPassword(value) == [type |-> "HashedPassword", value |-> HashValue[value]]

(* ------------------------------ Role, UserStatus ----------------------- *)
VALID_ROLES == {"student", "content_creator", "admin"}
VALID_STATUSES == {"active", "confirmation_pending", "suspended", "banned"}

\* roles and statuses are strings of word characters: trim leaves them as is
RoleIsValid(value) == value \in VALID_ROLES
Role(value) == [type |-> "Role", value |-> value]

UserStatusIsValid(value) == value \in VALID_STATUSES
UserStatus(value) == [type |-> "UserStatus", value |-> value]
createPendingConfirmation == UserStatus("confirmation_pending")
createActive == UserStatus("active")
createSuspended == UserStatus("suspended")
createBanned == UserStatus("banned")

\* a login check that turns away banned users only
canLoginUnlessBanned(status) == status.value # "banned"

canLogin(status) == status.value = "active"

(* ------------------------------ CountryCode ---------------------------- *)
VALID_CODES == {
    "US", "CA", "MX", "GL", "GT", "BZ", "SV", "HN", "NI", "CR", "PA", "CU", "JM", "HT",
    "DO", "PR", "TT", "BB", "BS", "BM", "CO", "VE", "GY", "SR", "GF", "BR", "EC", "PE",
    "BO", "PY", "UY", "AR", "CL", "FK", "ES", "PT", "FR", "IT", "DE", "GB", "IE", "NL",
    "BE", "LU", "CH", "AT", "MC", "AD", "MT", "SM", "VA", "SE", "NO", "DK", "FI", "IS",
    "PL", "CZ", "SK", "HU", "RO", "BG", "SI", "HR", "BA", "RS", "ME", "MK", "AL", "XK",
    "RU", "UA", "BY", "LT", "LV", "EE", "MD", "GE", "AM", "AZ", "JP", "KR", "KP", "CN",
    "TW", "HK", "MO", "MN", "TH", "VN", "PH", "ID", "MY", "SG", "BN", "LA", "KH", "MM",
    "TL", "IN", "PK", "BD", "LK", "NP", "BT", "MV", "AF", "TR", "IR", "IQ", "SY", "LB",
    "JO", "IL", "PS", "SA", "YE", "OM", "AE", "QA", "BH", "KW", "CY", "KZ", "UZ", "TM",
    "TJ", "KG", "EG", "LY", "TN", "DZ", "MA", "SD", "SS", "NG", "GH", "CI", "SN", "ML",
    "BF", "NE", "GN", "SL", "LR", "GM", "GW", "CV", "MR", "TG", "BJ", "KE", "ET", "UG",
    "TZ", "RW", "BI", "SO", "DJ", "ER", "MG", "MU", "SC", "KM", "CD", "CF", "CM", "TD",
    "CG", "GA", "GQ", "ST", "AO", "ZA", "ZW", "BW", "NA", "ZM", "MW", "MZ", "SZ", "LS",
    "AU", "NZ", "PG", "FJ", "SB", "VU", "NC", "PF", "WS", "TO", "KI", "NR", "PW", "FM",
    "MH", "TV"}

CountryCodeIsValid(value) == value \in VALID_CODES
CountryCode(value) == [type |-> "CountryCode", value |-> value]

\* the continent predicates, each a list of codes
northAmericaCodes ==
  {"US", "CA", "MX", "GL"}

centralAmericaCaribbeanCodes ==
  {"GT", "BZ", "SV", "HN", "NI", "CR", "PA", "CU", "JM", "HT", "DO", "PR",
   "TT", "BB", "BS", "BM"}

southAmericaCodes ==
  {"CO", "VE", "GY", "SR", "GF", "BR", "EC", "PE", "BO", "PY", "UY", "AR",
   "CL", "FK"}

europeCodes ==
  {"ES", "PT", "FR", "IT", "DE", "GB", "IE", "NL", "BE", "LU", "CH", "AT",
   "MC", "AD", "MT", "SM", "VA", "SE", "NO", "DK", "FI", "IS", "PL", "CZ",
   "SK", "HU", "RO", "BG", "SI", "HR", "BA", "RS", "ME", "MK", "AL", "XK",
   "UA", "BY", "LT", "LV", "EE", "MD", "RU", "TR", "CY"}

asiaCodes ==
  {"JP", "KR", "KP", "CN", "TW", "HK", "MO", "MN", "TH", "VN", "PH", "ID",
   "MY", "SG", "BN", "LA", "KH", "MM", "TL", "IN", "PK", "BD", "LK", "NP",
   "BT", "MV", "AF", "IR", "IQ", "SY", "LB", "JO", "IL", "PS", "SA", "YE",
   "OM", "AE", "QA", "BH", "KW", "KZ", "UZ", "TM", "TJ", "KG", "GE", "AM",
   "AZ", "RU", "TR", "CY"}

africaCodes ==
  {"EG", "LY", "TN", "DZ", "MA", "SD", "SS", "NG", "GH", "CI", "SN", "ML",
   "BF", "NE", "GN", "SL", "LR", "GM", "GW", "CV", "MR", "TG", "BJ", "KE",
   "ET", "UG", "TZ", "RW", "BI", "SO", "DJ", "ER", "MG", "MU", "SC", "KM",
   "CD", "CF", "CM", "TD", "CG", "GA", "GQ", "ST", "AO", "ZA", "ZW", "BW",
   "NA", "ZM", "MW", "MZ", "SZ", "LS"}

oceaniaCodes ==
  {"AU", "NZ", "PG", "FJ", "SB", "VU", "NC", "PF", "WS", "TO", "KI", "NR",
   "PW", "FM", "MH", "TV"}

isNorthAmerica(value) == value \in northAmericaCodes
isCentralAmericaAndCaribbean(value) == value \in centralAmericaCaribbeanCodes
isSouthAmerica(value) == value \in southAmericaCodes
isEurope(value) == value \in europeCodes
isAsia(value) == value \in asiaCodes
isAfrica(value) == value \in africaCodes
isOceania(value) == value \in oceaniaCodes

transcontinentalCodes == {"RU", "TR", "CY", "KZ", "AZ", "GE"}
isTranscontinental(value) == value \in transcontinentalCodes

\* the override table without Kazakhstan, a code outside Europe
primaryContinentMapWithoutKZ ==
  [c \in {"RU", "TR", "CY", "AZ", "GE", "AM"} |-> "Asia"]

primaryContinentMap ==
  [c \in {"RU", "TR", "CY", "KZ", "AZ", "GE", "AM"} |-> "Asia"]

\* Asia comes back early for a transcontinental code that is also a European one
getPrimaryContinentNoOverride(value) ==
  IF isNorthAmerica(value) THEN "North America"
  ELSE IF isCentralAmericaAndCaribbean(value) THEN "Central America and Caribbean"
  ELSE IF isSouthAmerica(value) THEN "South America"
  ELSE IF isEurope(value) THEN "Europe"
  ELSE IF isAsia(value) THEN "Asia"
  ELSE IF isAfrica(value) THEN "Africa"
  ELSE IF isOceania(value) THEN "Oceania"
  ELSE "Unknown"

getPrimaryContinent(value) ==
  IF value \in DOMAIN primaryContinentMap THEN primaryContinentMap[value]
  ELSE IF isNorthAmerica(value) THEN "North America"
  ELSE IF isCentralAmericaAndCaribbean(value) THEN "Central America and Caribbean"
  ELSE IF isSouthAmerica(value) THEN "South America"
  ELSE IF isEurope(value) /\ ~isTranscontinental(value) THEN "Europe"
  ELSE IF isAsia(value) /\ ~isTranscontinental(value) THEN "Asia"
  ELSE IF isAfrica(value) THEN "Africa"
  ELSE IF isOceania(value) THEN "Oceania"
  ELSE "Unknown"

(* ------------------------------ absent values -------------------------- *)
\* JavaScript undefined and null for a value-object slot, null for a column,
\* null and undefined for a Date, and the absence of an id, a user or a row
UndefVO == [type |-> "undefined"]
NullVO == [type |-> "null"]
NULL == "NULL"
NoDate == -1
UndefDate == -2
NoId == 0
\* an id of white space only
BlankId == -3
NoUser == [id |-> NoId]
NoRow == [id |-> NoId]

(* ------------------------------ User entity ---------------------------- *)
\* the constructor's checks without the one on the order of the two dates
validateConstructorParamsNoDateOrder(u) ==
  /\ u.id # NoId
  /\ u.id # BlankId
  /\ u.email.type = "Email"
  /\ u.username.type = "Username"
  /\ u.role.type = "Role"
  /\ u.passwordHash.type = "HashedPassword"
  /\ u.status.type = "UserStatus"
  /\ (u.countryCode # NullVO => u.countryCode.type = "CountryCode")
  /\ u.lastLogin # UndefDate
  /\ u.createdAt >= 0
  /\ u.updatedAt >= 0

validateConstructorParams(u) ==
  /\ u.id # NoId
  /\ u.id # BlankId
  /\ u.email.type = "Email"
  /\ u.username.type = "Username"
  /\ u.role.type = "Role"
  /\ u.passwordHash.type = "HashedPassword"
  /\ u.status.type = "UserStatus"
  /\ (u.countryCode # NullVO => u.countryCode.type = "CountryCode")
  /\ u.lastLogin # UndefDate
  /\ u.createdAt >= 0
  /\ u.updatedAt >= 0
  /\ ~(u.updatedAt < u.createdAt)

\* new User(...): the fields as given; defined when validateConstructorParams
\* holds of it, throws otherwise
User(id, email, username, passwordHash, role, status, countryCode, lastLogin, createdAt, updatedAt) ==
  [id |-> id, email |-> email, username |-> username,
   passwordHash |-> passwordHash, role |-> role, status |-> status,
   countryCode |-> countryCode, lastLogin |-> lastLogin,
   createdAt |-> createdAt, updatedAt |-> updatedAt]

\* User.create; uuid is the value generateUUID() returns, t is new Date().
\* First a create that takes the creation for a first login.
UserCreateLoggedIn(email, username, passwordHash, role, countryCode, status, id, uuid, t) ==
  User(IF id # NoId THEN id ELSE uuid,
       email, username, passwordHash, role,
       IF status \in {UndefVO, NullVO} THEN createPendingConfirmation ELSE status,
       IF countryCode \in {UndefVO, NullVO} THEN NullVO ELSE countryCode,
       t, t, t)

UserCreate(email, username, passwordHash, role, countryCode, status, id, uuid, t) ==
  User(IF id # NoId THEN id ELSE uuid,
       email, username, passwordHash, role,
       IF status \in {UndefVO, NullVO} THEN createPendingConfirmation ELSE status,
       IF countryCode \in {UndefVO, NullVO} THEN NullVO ELSE countryCode,
       NoDate, t, t)

\* User.canLogin
UserCanLogin(user) == canLogin(user.status)

createActiveUser(email, username, passwordHash, role, countryCode, id, uuid, t) ==
  UserCreate(email, username, passwordHash, role, countryCode, createActive, id, uuid, t)

createSuspendedUser(email, username, passwordHash, role, countryCode, id, uuid, t) ==
  UserCreate(email, username, passwordHash, role, countryCode, createSuspended, id, uuid, t)

createBannedUser(email, username, passwordHash, role, countryCode, id, uuid, t) ==
  UserCreate(email, username, passwordHash, role, countryCode, createBanned, id, uuid, t)

fromPersistence(id, email, username, passwordHash, role, status, countryCode, lastLogin, createdAt, updatedAt) ==
  User(id, email, username, passwordHash, role, status, countryCode, lastLogin,
       createdAt, updatedAt)

getCountryCodeValue(u) ==
  IF u.countryCode = NullVO THEN NULL ELSE u.countryCode.value

(* ------------------------------ row <-> entity ------------------------- *)
mapRoleToEnum(roleValue) ==
  CASE roleValue = "student" -> "student"
    [] roleValue = "content_creator" -> "content_creator"
    [] roleValue = "admin" -> "admin"
    [] OTHER -> THROW

mapEnumToRole(prismaRole) == prismaRole

mapUserStatusToEnum(statusValue) ==
  CASE statusValue = "active" -> "active"
    [] statusValue = "confirmation_pending" -> "confirmation_pending"
    [] statusValue = "suspended" -> "suspended"
    [] statusValue = "banned" -> "banned"
    [] OTHER -> THROW

mapEnumToUserStatus(prismaUserStatus) == prismaUserStatus

\* mapToUser throws when a value-object constructor or the entity does
mapToUserThrows(prismaUser) ==
  \/ ~EmailIsValid(prismaUser.email)
  \/ ~UsernameIsValid(prismaUser.username)
  \/ ~HashIsValid(prismaUser.passwordHash)
  \/ ~RoleIsValid(mapEnumToRole(prismaUser.role))
  \/ ~UserStatusIsValid(mapEnumToUserStatus(prismaUser.status))
  \/ (prismaUser.countryCode # NULL /\ ~CountryCodeIsValid(prismaUser.countryCode))
  \/ prismaUser.updatedAt < prismaUser.createdAt

\* the entity is given the row's created_at for both dates
mapToUserStaleUpdatedAt(prismaUser) ==
  fromPersistence(
    prismaUser.id,
    Email(prismaUser.email),
    Username(prismaUser.username),
    HashedPassword(prismaUser.passwordHash),
    Role(mapEnumToRole(prismaUser.role)),
    UserStatus(mapEnumToUserStatus(prismaUser.status)),
    IF prismaUser.countryCode # NULL
      THEN CountryCode(prismaUser.countryCode) ELSE NullVO,
    prismaUser.lastLogin,
    prismaUser.createdAt,
    prismaUser.createdAt)

mapToUser(prismaUser) ==
  fromPersistence(
    prismaUser.id,
    Email(prismaUser.email),
    Username(prismaUser.username),
    HashedPassword(prismaUser.passwordHash),
    Role(mapEnumToRole(prismaUser.role)),
    UserStatus(mapEnumToUserStatus(prismaUser.status)),
    IF prismaUser.countryCode # NULL
      THEN CountryCode(prismaUser.countryCode) ELSE NullVO,
    prismaUser.lastLogin,
    prismaUser.createdAt,
    prismaUser.updatedAt)

\* create forgets the country code
createDataNoCountry(user) ==
  [id |-> user.id,
   email |-> user.email.value,
   username |-> user.username.value,
   passwordHash |-> user.passwordHash.value,
   role |-> mapRoleToEnum(user.role.value),
   status |-> mapUserStatusToEnum(user.status.value),
   countryCode |-> NULL,
   lastLogin |-> user.lastLogin,
   createdAt |-> user.createdAt,
   updatedAt |-> user.updatedAt]

\* the data object repository create hands to prisma.user.create
createData(user) ==
  [id |-> user.id,
   email |-> user.email.value,
   username |-> user.username.value,
   passwordHash |-> user.passwordHash.value,
   role |-> mapRoleToEnum(user.role.value),
   status |-> mapUserStatusToEnum(user.status.value),
   countryCode |-> getCountryCodeValue(user),
   lastLogin |-> user.lastLogin,
   createdAt |-> user.createdAt,
   updatedAt |-> user.updatedAt]

\* update writes countryCode whether or not it was supplied
updateDataAlwaysCountry(userData) ==
  LET keys == {k \in {"email", "username", "passwordHash", "role"} :
                  userData[k] # UndefVO} \cup {"countryCode"}
  IN [k \in keys |->
        CASE k = "role" -> mapRoleToEnum(userData.role.value)
          [] k = "countryCode" ->
               (IF userData.countryCode \in {NullVO, UndefVO}
                  THEN NULL ELSE userData.countryCode.value)
          [] OTHER -> userData[k].value]

\* update writes a supplied status as well
updateDataWithStatus(userData) ==
  LET keys == {k \in {"email", "username", "passwordHash", "role", "status"} :
                  userData[k] # UndefVO}
              \cup (IF userData.countryCode # UndefVO
                      THEN {"countryCode"} ELSE {})
  IN [k \in keys |->
        CASE k = "role" -> mapRoleToEnum(userData.role.value)
          [] k = "status" -> mapUserStatusToEnum(userData.status.value)
          [] k = "countryCode" ->
               (IF userData.countryCode = NullVO
                  THEN NULL ELSE userData.countryCode.value)
          [] OTHER -> userData[k].value]

\* the updateData object repository update builds from a Partial<User>
updateData(userData) ==
  LET keys == {k \in {"email", "username", "passwordHash", "role"} :
                  userData[k] # UndefVO}
              \cup (IF userData.countryCode # UndefVO
                      THEN {"countryCode"} ELSE {})
  IN [k \in keys |->
        CASE k = "role" -> mapRoleToEnum(userData.role.value)
          [] k = "countryCode" ->
               (IF userData.countryCode = NullVO
                  THEN NULL ELSE userData.countryCode.value)
          [] OTHER -> userData[k].value]

(* ------------------------------ storage engine ------------------------- *)
\* What a Prisma call can fail with besides a constraint: a
\* PrismaClientKnownRequestError with code P1001, a
\* PrismaClientUnknownRequestError, or any other error.
Faults == {"P1001", "Unknown", "Other"}

PrismaResult(error, target, st, row) ==
  [error |-> error, target |-> target, store |-> st, row |-> row]

UniqueFields == {"email", "username"}

\* only the email index exists
CollisionsEmailOnly(st, self, data) ==
  {k \in {"email"} \cap DOMAIN data :
     \E j \in DOMAIN st \ {self} : st[j][k] = data[k]}

\* the unique indexes users_email_key and users_username_key: the unique
\* fields of data that a row other than self already holds
Collisions(st, self, data) ==
  {k \in UniqueFields \cap DOMAIN data :
     \E j \in DOMAIN st \ {self} : st[j][k] = data[k]}

\* an insert that checks the primary key only
PrismaCreateUnchecked(st, data, fault) ==
  IF fault # "none" THEN PrismaResult(fault, {}, st, NoRow)
  ELSE IF data.id \in DOMAIN st THEN PrismaResult("P2002", {"id"}, st, NoRow)
  ELSE PrismaResult("none", {},
         [i \in DOMAIN st \cup {data.id} |-> IF i = data.id THEN data ELSE st[i]],
         data)

PrismaCreate(st, data, fault) ==
  IF fault # "none" THEN PrismaResult(fault, {}, st, NoRow)
  ELSE IF data.id \in DOMAIN st THEN PrismaResult("P2002", {"id"}, st, NoRow)
  ELSE IF Collisions(st, data.id, data) # {}
    THEN PrismaResult("P2002", Collisions(st, data.id, data), st, NoRow)
  ELSE PrismaResult("none", {},
         [i \in DOMAIN st \cup {data.id} |-> IF i = data.id THEN data ELSE st[i]],
         data)

\* the updatedAt column of an updated row is set to the time of the update
updatedAtOnUpdate(row, t) == t

PrismaUpdateRow(row, data, t) ==
  [k \in DOMAIN row |->
     IF k \in DOMAIN data THEN data[k]
     ELSE IF k = "updatedAt" THEN updatedAtOnUpdate(row, t)
     ELSE row[k]]

\* an update that does not look at the unique indexes
PrismaUpdateUnchecked(st, id, data, t, fault) ==
  IF fault # "none" THEN PrismaResult(fault, {}, st, NoRow)
  ELSE IF id \notin DOMAIN st THEN PrismaResult("P2025", {}, st, NoRow)
  ELSE PrismaResult("none", {},
         [st EXCEPT ![id] = PrismaUpdateRow(st[id], data, t)],
         PrismaUpdateRow(st[id], data, t))

PrismaUpdate(st, id, data, t, fault) ==
  IF fault # "none" THEN PrismaResult(fault, {}, st, NoRow)
  ELSE IF id \notin DOMAIN st THEN PrismaResult("P2025", {}, st, NoRow)
  ELSE IF Collisions(st, id, data) # {}
    THEN PrismaResult("P2002", Collisions(st, id, data), st, NoRow)
  ELSE PrismaResult("none", {},
         [st EXCEPT ![id] = PrismaUpdateRow(st[id], data, t)],
         PrismaUpdateRow(st[id], data, t))

PrismaDelete(st, id, fault) ==
  IF fault # "none" THEN PrismaResult(fault, {}, st, NoRow)
  ELSE IF id \notin DOMAIN st THEN PrismaResult("P2025", {}, st, NoRow)
  ELSE PrismaResult("none", {}, [i \in DOMAIN st \ {id} |-> st[i]], st[id])

\* findUnique on the primary key or on one of the unique columns
PrismaFindUnique(st, key, value, fault) ==
  IF fault # "none" THEN PrismaResult(fault, {}, st, NoRow)
  ELSE IF \E i \in DOMAIN st : st[i][key] = value
    THEN PrismaResult("none", {}, st,
                      st[CHOOSE i \in DOMAIN st : st[i][key] = value])
  ELSE PrismaResult("none", {}, st, NoRow)

\* findMany: the rows whose column key holds value
PrismaFindMany(st, key, value, fault) ==
  IF fault # "none" THEN [error |-> fault, target |-> {}, rows |-> {}]
  ELSE [error |-> "none", target |-> {},
        rows |-> {st[i] : i \in {j \in DOMAIN st : st[j][key] = value}}]

\* findMany with where: { countryCode: { not: null } }
PrismaFindManyNotNull(st, key, fault) ==
  IF fault # "none" THEN [error |-> fault, target |-> {}, rows |-> {}]
  ELSE [error |-> "none", target |-> {},
        rows |-> {st[i] : i \in {j \in DOMAIN st : st[j][key] # NULL}}]

(* ------------------------------ repository errors ---------------------- *)
\* What a call gave its caller: kind is "user", "null" or "void" for a
\* returned value and the name of the error class for a thrown one.  field
\* and value are what the error's message names; cause and target are the
\* originalError it carries.
Outcome(kind, user, field, value, cause, target) ==
  [kind |-> kind, user |-> user, field |-> field, value |-> value,
   cause |-> cause, target |-> target, users |-> {}, stats |-> <<>>,
   count |-> 0]

Returned(kind, user) == Outcome(kind, user, "none", "", "none", {})

\* a returned User[]; the order of the rows of findMany is not fixed by the
\* query, the array is kept as the set of its elements
ReturnedUsers(users) == [Returned("users", NoUser) EXCEPT !.users = users]

\* a returned Record<string, number>
ReturnedStats(stats) == [Returned("stats", NoUser) EXCEPT !.stats = stats]

\* message: `Usuario con email ${email} ya existe`
UserAlreadyExistsError(email, originalError) ==
  Outcome("UserAlreadyExistsError", NoUser, "email", email,
          originalError.error, originalError.target)

DatabaseConnectionError(originalError) ==
  Outcome("DatabaseConnectionError", NoUser, "none", "",
          originalError.error, originalError.target)

UserRepositoryError(originalError) ==
  Outcome("UserRepositoryError", NoUser, "none", "",
          originalError.error, originalError.target)

\* an error thrown by the domain layer (a value object, the entity, a mapper)
DomainError == PrismaResult("Error", {}, <<>>, NoRow)

(* ------------------------------ UserRepository ------------------------- *)
\* Each method is computed on the store st and gives the store it leaves and
\* the outcome: [store |-> ..., out |-> ...].
Result(st, out) == [store |-> st, out |-> out]

\* create, from the entity User.create built when the call was made
create(st, userData, user, fault) ==
  IF ~validateConstructorParams(user)
       \/ mapRoleToEnum(user.role.value) = THROW
       \/ mapUserStatusToEnum(user.status.value) = THROW
    THEN Result(st, UserRepositoryError(DomainError))
  ELSE LET r == PrismaCreate(st, createData(user), fault)
       IN CASE r.error = "none" -> Result(r.store, Returned("user", user))
            [] r.error = "P2002" ->
                 Result(r.store, UserAlreadyExistsError(userData.email.value, r))
            [] r.error = "P1001" -> Result(r.store, DatabaseConnectionError(r))
            [] r.error = "Unknown" -> Result(r.store, DatabaseConnectionError(r))
            [] OTHER -> Result(r.store, UserRepositoryError(r))

\* a find that answers null when the storage fails
findUniqueSwallowsErrors(st, key, value, fault) ==
  LET r == PrismaFindUnique(st, key, value, fault)
  IN CASE r.error = "none" /\ r.row = NoRow -> Result(st, Returned("null", NoUser))
       [] r.error = "none" /\ mapToUserThrows(r.row) ->
            Result(st, UserRepositoryError(DomainError))
       [] r.error = "none" -> Result(st, Returned("user", mapToUser(r.row)))
       [] OTHER -> Result(st, Returned("null", NoUser))

\* the body shared by findById, findByEmail and findByUsername
findUnique(st, key, value, fault) ==
  LET r == PrismaFindUnique(st, key, value, fault)
  IN CASE r.error = "none" /\ r.row = NoRow -> Result(st, Returned("null", NoUser))
       [] r.error = "none" /\ mapToUserThrows(r.row) ->
            Result(st, UserRepositoryError(DomainError))
       [] r.error = "none" -> Result(st, Returned("user", mapToUser(r.row)))
       [] r.error = "Unknown" -> Result(st, DatabaseConnectionError(r))
       [] OTHER -> Result(st, UserRepositoryError(r))

findById(st, id, fault) == findUnique(st, "id", id, fault)
findByEmail(st, email, fault) == findUnique(st, "email", email, fault)
findByUsername(st, username, fault) == findUnique(st, "username", username, fault)

\* The one statement update makes: prisma.user.update with the mapped data.
\* First an update in two statements, the email before the other fields.
updateStatementEmailFirst(st, id, userData, t, fault) ==
  LET d == updateData(userData)
      first == PrismaUpdate(st, id, [k \in DOMAIN d \cap {"email"} |-> d[k]], t, fault)
  IN IF first.error # "none" THEN first
     ELSE PrismaUpdate(first.store, id, [k \in DOMAIN d \ {"email"} |-> d[k]], t, fault)

updateStatement(st, id, userData, t, fault) ==
  PrismaUpdate(st, id, updateData(userData), t, fault)

\* an update that treats a missing record as an error
updateThrowsOnMissing(st, id, userData, t, fault) ==
  IF userData.role # UndefVO /\ mapRoleToEnum(userData.role.value) = THROW
    THEN Result(st, UserRepositoryError(DomainError))
  ELSE LET r == PrismaUpdate(st, id, updateData(userData), t, fault)
       IN CASE r.error = "none" /\ mapToUserThrows(r.row) ->
                 Result(r.store, UserRepositoryError(DomainError))
            [] r.error = "none" -> Result(r.store, Returned("user", mapToUser(r.row)))
            [] r.error = "P2002" ->
                 Result(r.store,
                        UserAlreadyExistsError(
                          IF userData.email # UndefVO
                            THEN userData.email.value ELSE "unknown", r))
            [] r.error = "P1001" -> Result(r.store, DatabaseConnectionError(r))
            [] r.error = "Unknown" -> Result(r.store, DatabaseConnectionError(r))
            [] OTHER -> Result(r.store, UserRepositoryError(r))

update(st, id, userData, t, fault) ==
  IF userData.role # UndefVO /\ mapRoleToEnum(userData.role.value) = THROW
    THEN Result(st, UserRepositoryError(DomainError))
  ELSE LET r == updateStatement(st, id, userData, t, fault)
       IN CASE r.error = "none" /\ mapToUserThrows(r.row) ->
                 Result(r.store, UserRepositoryError(DomainError))
            [] r.error = "none" -> Result(r.store, Returned("user", mapToUser(r.row)))
            [] r.error = "P2025" -> Result(r.store, Returned("null", NoUser))
            [] r.error = "P2002" ->
                 Result(r.store,
                        UserAlreadyExistsError(
                          IF userData.email # UndefVO
                            THEN userData.email.value ELSE "unknown", r))
            [] r.error = "P1001" -> Result(r.store, DatabaseConnectionError(r))
            [] r.error = "Unknown" -> Result(r.store, DatabaseConnectionError(r))
            [] OTHER -> Result(r.store, UserRepositoryError(r))

\* a delete that treats a missing record as an error
deleteThrowsOnMissing(st, id, fault) ==
  LET r == PrismaDelete(st, id, fault)
  IN CASE r.error = "none" -> Result(r.store, Returned("void", NoUser))
       [] r.error = "P1001" -> Result(r.store, DatabaseConnectionError(r))
       [] r.error = "Unknown" -> Result(r.store, DatabaseConnectionError(r))
       [] OTHER -> Result(r.store, UserRepositoryError(r))

delete(st, id, fault) ==
  LET r == PrismaDelete(st, id, fault)
  IN CASE r.error = "none" -> Result(r.store, Returned("void", NoUser))
       [] r.error = "P2025" -> Result(r.store, Returned("void", NoUser))
       [] r.error = "P1001" -> Result(r.store, DatabaseConnectionError(r))
       [] r.error = "Unknown" -> Result(r.store, DatabaseConnectionError(r))
       [] OTHER -> Result(r.store, UserRepositoryError(r))

\* users.map(this.mapToUser.bind(this)) inside the try block, then the catch
mapRows(st, r) ==
  CASE r.error = "none" /\ (\E row \in r.rows : mapToUserThrows(row)) ->
         Result(st, UserRepositoryError(DomainError))
    [] r.error = "none" -> Result(st, ReturnedUsers({mapToUser(row) : row \in r.rows}))
    [] r.error = "Unknown" -> Result(st, DatabaseConnectionError(r))
    [] OTHER -> Result(st, UserRepositoryError(r))

findUsersByRole(st, role, fault) ==
  IF mapRoleToEnum(role) = THROW
    THEN Result(st, UserRepositoryError(DomainError))
  ELSE mapRows(st, PrismaFindMany(st, "role", mapRoleToEnum(role), fault))

findUsersByCountry(st, countryCode, fault) ==
  mapRows(st, PrismaFindMany(st, "countryCode", countryCode, fault))

\* the filter callback of findUsersByContinent: a country code that the
\* CountryCode constructor refuses is caught and gives false
\* a filter that keeps every user whose country lies in the continent, be it
\* the primary one or not
continentFilterByMembership(user, continent) ==
  /\ user.countryCode # NULL
  /\ CountryCodeIsValid(user.countryCode)
  /\ \/ getPrimaryContinent(user.countryCode) = continent
     \/ continent = "Europe" /\ isEurope(user.countryCode)
     \/ continent = "Asia" /\ isAsia(user.countryCode)

continentFilter(user, continent) ==
  /\ user.countryCode # NULL
  /\ CountryCodeIsValid(user.countryCode)
  /\ getPrimaryContinent(user.countryCode) = continent

findUsersByContinent(st, continent, fault) ==
  LET r == PrismaFindManyNotNull(st, "countryCode", fault)
  IN mapRows(st, [r EXCEPT !.rows = {user \in r.rows : continentFilter(user, continent)}])

\* the forEach of getUserStatsByContinent: invalid country codes are ignored
getUserStatsByContinent(st, fault) ==
  LET r == PrismaFindManyNotNull(st, "countryCode", fault)
      counted == {user \in r.rows : CountryCodeIsValid(user.countryCode)}
      keys == {getPrimaryContinent(user.countryCode) : user \in counted}
  IN CASE r.error = "none" ->
            Result(st, ReturnedStats(
              [k \in keys |->
                 Cardinality({user \in counted :
                                getPrimaryContinent(user.countryCode) = k})]))
       [] r.error = "Unknown" -> Result(st, DatabaseConnectionError(r))
       [] OTHER -> Result(st, UserRepositoryError(r))

(* ------------------------------ inputs --------------------------------- *)
\* what callers type, and the value objects they make of it
RawEmails == {"a@x", "A@x", " b@x "}
Emails == {Email(e) : e \in RawEmails}
Usernames == {Username("abc"), Username("ABC")}
RawHashes == {"$2b$12$hhhhhhhhhhhhhhhhhhhhhhhhhhhhhhhhhhhhhhhhhhhhhhhhhhhhh",
              " $2a$04$/////////////////////////////////////////////////////"}
Hashes == {HashedPassword(h) : h \in RawHashes}
Roles == {Role(r) : r \in VALID_ROLES}
Statuses == {UserStatus(s) : s \in VALID_STATUSES}
Countries == {CountryCode("RU")}
Ids == 1..MaxId
\* two callers; the sequential specification uses the first alone
Procs == {1, 2}

\* The userData of create.  The identity fields take every combination;
\* the other fields, which no code path relates to each other, take three
\* combinations that show every role, both hashes and a country code that
\* is left out, null or present.
CreatePayloads ==
  {[passwordHash |-> HashedPassword("$2b$12$hhhhhhhhhhhhhhhhhhhhhhhhhhhhhhhhhhhhhhhhhhhhhhhhhhhhh"),
    role |-> Role("student"), countryCode |-> UndefVO],
   [passwordHash |-> HashedPassword(" $2a$04$/////////////////////////////////////////////////////"),
    role |-> Role("admin"), countryCode |-> CountryCode("RU")],
   [passwordHash |-> HashedPassword("$2b$12$hhhhhhhhhhhhhhhhhhhhhhhhhhhhhhhhhhhhhhhhhhhhhhhhhhhhh"),
    role |-> Role("content_creator"), countryCode |-> NullVO]}

CreateInputs ==
  {[email |-> e, username |-> u, passwordHash |-> d.passwordHash,
    role |-> d.role, countryCode |-> d.countryCode] :
     e \in Emails, u \in Usernames, d \in CreatePayloads}

FieldKeys == {"email", "username", "passwordHash", "role", "status",
              "countryCode", "lastLogin"}

Supplied(userData, k) ==
  IF k = "lastLogin" THEN userData[k] # UndefDate ELSE userData[k] # UndefVO

\* The Partial<User> of update.  NoChange supplies nothing; the payloads are
\* every single property with each of its values, every pair of the two
\* identity fields, and three larger combinations, one of them all seven.
NoChange ==
  [email |-> UndefVO, username |-> UndefVO, passwordHash |-> UndefVO,
   role |-> UndefVO, status |-> UndefVO, countryCode |-> UndefVO,
   lastLogin |-> UndefDate]

UpdateInputs ==
  {NoChange}
    \cup {[NoChange EXCEPT !.email = e] : e \in Emails}
    \cup {[NoChange EXCEPT !.username = u] : u \in Usernames}
    \cup {[NoChange EXCEPT !.passwordHash = h] : h \in Hashes}
    \cup {[NoChange EXCEPT !.role = r] : r \in Roles}
    \cup {[NoChange EXCEPT !.status = s] : s \in Statuses}
    \cup {[NoChange EXCEPT !.countryCode = c] : c \in {NullVO} \cup Countries}
    \cup {[NoChange EXCEPT !.lastLogin = 0]}
    \cup {[NoChange EXCEPT !.email = e, !.username = u] :
             e \in Emails, u \in Usernames}
    \cup {[NoChange EXCEPT !.passwordHash = HashedPassword(" $2a$04$/////////////////////////////////////////////////////"),
                           !.role = Role("content_creator"),
                           !.countryCode = CountryCode("RU")],
           [NoChange EXCEPT !.status = UserStatus("active"), !.lastLogin = 0],
           [email |-> Email(" b@x "), username |-> Username("ABC"),
            passwordHash |-> HashedPassword(" $2a$04$/////////////////////////////////////////////////////"),
            role |-> Role("admin"), status |-> UserStatus("suspended"),
            countryCode |-> NullVO, lastLogin |-> NoDate]}

\* A storage fault fails the statement before any row is looked at: the
\* fault cases are explored on one id and on one payload of each kind.
CreateInputsOnFault ==
  {d \in CreateInputs : /\ d.role = Role("student")
                        /\ d.username = Username("abc")
                        /\ d.email = Email("a@x")}
IdsOnFault == {1}

UpdateInputsOnFault == {[NoChange EXCEPT !.email = Email("a@x")]}

(* ------------------------------ state ---------------------------------- *)
VARIABLES
  store,    \* the users table: stored id -> row
  now,      \* the clock new Date() and the storage engine read
  nextId,   \* the next value generateUUID() returns
  calls,    \* per caller: the repository call it is in and what it got
  ncalls,   \* the number of calls made so far
  fresh,    \* id -> the entity create returned, until the id is updated or deleted
  built     \* what the constructor or factory called last made, and its answers

vars == <<store, now, nextId, calls, ncalls, fresh, built>>

EmptyStore == [i \in {} |-> NoRow]

\* no constructor or factory has been called
NotBuilt == [op |-> "none"]

\* A call: its operation and arguments (for create, the entity built when
\* the call was made), then, once its statement has run, the fault the
\* storage had, the store the statement found, whether it changed the store
\* and the outcome.  raced: a statement of another call ran while this call
\* was waiting to make its own.
Idle ==
  [phase |-> "idle", op |-> "none", id |-> NoId, data |-> UndefVO,
   user |-> NoUser, raced |-> FALSE, fault |-> "none", before |-> EmptyStore,
   changed |-> FALSE, out |-> Returned("void", NoUser)]

Pending(op, id, data, user) ==
  [Idle EXCEPT !.phase = "pending", !.op = op, !.id = id, !.data = data,
               !.user = user]

Done(c, fault, before, after, out) ==
  [c EXCEPT !.phase = "done", !.fault = fault, !.before = before,
            !.changed = (after # before), !.out = out]

\* a row written before this process started, one for each status the
\* status column can hold
SeedRow(status) ==
  [id |-> 1, email |-> "a@x", username |-> "abc",
   passwordHash |-> "$2b$12$hhhhhhhhhhhhhhhhhhhhhhhhhhhhhhhhhhhhhhhhhhhhhhhhhhhhh",
   role |-> "student", status |-> status, countryCode |-> NULL,
   lastLogin |-> IF status = "confirmation_pending" THEN NoDate ELSE 0,
   createdAt |-> 0, updatedAt |-> 0]

SecondSeedRow(status) ==
  [id |-> 2, email |-> "b@x", username |-> "ABC",
   passwordHash |-> "$2a$04$/////////////////////////////////////////////////////",
   role |-> "admin", status |-> status, countryCode |-> "RU",
   lastLogin |-> NoDate, createdAt |-> 0, updatedAt |-> 0]

\* a row some other client of the table wrote: its country_code, a TEXT
\* column without a constraint, holds a string CountryCode does not accept
CorruptSeedRow == [SeedRow("active") EXCEPT !.countryCode = "XX"]

\* the table when the repository is constructed: empty, one row, or two
\* rows; between them the rows show every status, and one is corrupt
InitStores ==
  {EmptyStore,
   [i \in {1} |-> CorruptSeedRow],
   [i \in {1} |-> SeedRow("banned")],
   [i \in {1} |-> SeedRow("confirmation_pending")],
   [i \in {1, 2} |-> IF i = 1 THEN SeedRow("active") ELSE SecondSeedRow("suspended")]}

Init ==
  /\ store \in InitStores
  /\ now = 0
  /\ nextId = Cardinality(DOMAIN store) + 1
  /\ calls = [p \in Procs |-> Idle]
  /\ ncalls = 0
  /\ fresh = [i \in {} |-> NoUser]
  /\ built = NotBuilt

AllIdle == \A p \in Procs : calls[p].phase = "idle"

\* the entity repository create builds from its userData
NewUser(userData) ==
  UserCreate(userData.email, userData.username, userData.passwordHash,
             userData.role, userData.countryCode, UndefVO, NoId, nextId, now)

\* the statement of call c made on store st at time t
ReturnedCount(count) == [Returned("count", NoUser) EXCEPT !.count = count]

PrismaCount(st, fault) ==
  IF fault # "none" THEN [error |-> fault, target |-> {}, count |-> 0]
  ELSE [error |-> "none", target |-> {}, count |-> Cardinality(DOMAIN st)]

\* a count of the users that may log in only
countUsersActiveOnly(st, fault) ==
  LET r == PrismaCount([i \in {j \in DOMAIN st : st[j].status = "active"} |-> st[i]],
                       fault)
  IN CASE r.error = "none" -> Result(st, ReturnedCount(r.count))
       [] r.error = "Unknown" -> Result(st, DatabaseConnectionError(r))
       [] OTHER -> Result(st, UserRepositoryError(r))

countUsers(st, fault) ==
  LET r == PrismaCount(st, fault)
  IN CASE r.error = "none" -> Result(st, ReturnedCount(r.count))
       [] r.error = "Unknown" -> Result(st, DatabaseConnectionError(r))
       [] OTHER -> Result(st, UserRepositoryError(r))

\* a report that drops the rows whose country code no CountryCode accepts
getUserStatsByCountryPruning(st, fault) ==
  LET r == PrismaFindManyNotNull(st, "countryCode", fault)
      counted == {user \in r.rows : user.countryCode # ""}
      keys == {user.countryCode : user \in counted}
      kept == {i \in DOMAIN st :
                 st[i].countryCode = NULL \/ CountryCodeIsValid(st[i].countryCode)}
  IN CASE r.error = "none" ->
            Result([i \in kept |-> st[i]],
                   ReturnedStats(
                     [k \in keys |->
                        Cardinality({user \in counted : user.countryCode = k})]))
       [] r.error = "Unknown" -> Result(st, DatabaseConnectionError(r))
       [] OTHER -> Result(st, UserRepositoryError(r))

getUserStatsByCountry(st, fault) ==
  LET r == PrismaFindManyNotNull(st, "countryCode", fault)
      counted == {user \in r.rows : user.countryCode # ""}
      keys == {user.countryCode : user \in counted}
  IN CASE r.error = "none" ->
            Result(st, ReturnedStats(
              [k \in keys |->
                 Cardinality({user \in counted : user.countryCode = k})]))
       [] r.error = "Unknown" -> Result(st, DatabaseConnectionError(r))
       [] OTHER -> Result(st, UserRepositoryError(r))

ExecuteOn(st, t, c, fault) ==
  CASE c.op = "create" -> create(st, c.data, c.user, fault)
    [] c.op = "findById" -> findById(st, c.id, fault)
    [] c.op = "findByEmail" -> findByEmail(st, c.data, fault)
    [] c.op = "findByUsername" -> findByUsername(st, c.data, fault)
    [] c.op = "update" -> update(st, c.id, c.data, t, fault)
    [] c.op = "delete" -> delete(st, c.id, fault)
    [] c.op = "findUsersByRole" -> findUsersByRole(st, c.data, fault)
    [] c.op = "findUsersByCountry" -> findUsersByCountry(st, c.data, fault)
    [] c.op = "findUsersByContinent" -> findUsersByContinent(st, c.data, fault)
    [] c.op = "getUserStatsByContinent" -> getUserStatsByContinent(st, fault)
    [] c.op = "countUsers" -> countUsers(st, fault)
    [] c.op = "getUserStatsByCountry" -> getUserStatsByCountry(st, fault)

\* the statement a pending call c makes, on the store as it is now
Execute(c, fault) == ExecuteOn(store, now, c, fault)

\* the entities create returned that no later update or delete touched
FreshAfter(c, r) ==
  CASE c.op = "create" /\ r.out.kind = "user" ->
         [i \in DOMAIN fresh \cup {c.user.id} |->
            IF i = c.user.id THEN r.out.user ELSE fresh[i]]
    [] c.op \in {"update", "delete"} /\ (r.store # store \/ r.out.kind = "user") ->
         [i \in DOMAIN fresh \ {c.id} |-> fresh[i]]
    [] OTHER -> fresh

\* a whole call of caller p, made while no other call is in progress
Run(p, c, fault) ==
  /\ AllIdle
  /\ ncalls < MaxCalls
  /\ ncalls' = ncalls + 1
  /\ LET r == Execute(c, fault)
     IN /\ store' = r.store
        /\ calls' = [calls EXCEPT ![p] = Done(c, fault, store, r.store, r.out)]
        /\ fresh' = FreshAfter(c, r)
  /\ UNCHANGED <<now, built>>

(* ------------------------------ sequential calls ----------------------- *)
Create(userData, fault) ==
  /\ nextId <= MaxId
  /\ Run(1, Pending("create", NoId, userData, NewUser(userData)), fault)
  /\ nextId' = nextId + 1

FindById(id, fault) ==
  /\ Run(1, Pending("findById", id, UndefVO, NoUser), fault)
  /\ UNCHANGED nextId

FindByEmail(email, fault) ==
  /\ Run(1, Pending("findByEmail", NoId, email, NoUser), fault)
  /\ UNCHANGED nextId

FindByUsername(username, fault) ==
  /\ Run(1, Pending("findByUsername", NoId, username, NoUser), fault)
  /\ UNCHANGED nextId

Update(id, userData, fault) ==
  /\ Run(1, Pending("update", id, userData, NoUser), fault)
  /\ UNCHANGED nextId

Delete(id, fault) ==
  /\ Run(1, Pending("delete", id, UndefVO, NoUser), fault)
  /\ UNCHANGED nextId

FindUsersByRole(role, fault) ==
  /\ Run(1, Pending("findUsersByRole", NoId, role, NoUser), fault)
  /\ UNCHANGED nextId

FindUsersByCountry(countryCode, fault) ==
  /\ Run(1, Pending("findUsersByCountry", NoId, countryCode, NoUser), fault)
  /\ UNCHANGED nextId

FindUsersByContinent(continent, fault) ==
  /\ Run(1, Pending("findUsersByContinent", NoId, continent, NoUser), fault)
  /\ UNCHANGED nextId

GetUserStatsByContinent(fault) ==
  /\ Run(1, Pending("getUserStatsByContinent", NoId, UndefVO, NoUser), fault)
  /\ UNCHANGED nextId

CountUsers(fault) ==
  /\ Run(1, Pending("countUsers", NoId, UndefVO, NoUser), fault)
  /\ UNCHANGED nextId

GetUserStatsByCountry(fault) ==
  /\ Run(1, Pending("getUserStatsByCountry", NoId, UndefVO, NoUser), fault)
  /\ UNCHANGED nextId

\* the caller takes the result of its call
Return(p) ==
  /\ calls[p].phase = "done"
  /\ calls' = [calls EXCEPT ![p] = Idle]
  /\ UNCHANGED <<store, now, nextId, ncalls, fresh, built>>

Tick ==
  /\ now < MaxTime
  /\ \A p \in Procs : calls[p].phase # "done"
  /\ now' = now + 1
  /\ UNCHANGED <<store, nextId, calls, ncalls, fresh, built>>

\* the strings the list queries are asked with: a role the enum has and one
\* it does not, a stored country code, one nobody has and one no CountryCode
\* accepts, and for the continent the two a transcontinental code belongs to
RoleNames == {"student", "admin", "guest"}
CountryNames == {"RU", "ES", "XX"}
ContinentNames == {"Asia", "Europe"}
FindEmails == RawEmails \cup {e.value : e \in Emails}
FindUsernames == {u.value : u \in Usernames}

\* the ids a caller can name: every id issued so far and one never issued
\* (ids never issued are all alike to the storage)
TargetIds == {i \in Ids : i <= nextId}

Next ==
  \/ \E userData \in CreateInputs : Create(userData, "none")
  \/ \E userData \in CreateInputsOnFault, fault \in Faults : Create(userData, fault)
  \/ \E id \in TargetIds : FindById(id, "none")
  \/ \E id \in IdsOnFault, fault \in Faults : FindById(id, fault)
  \/ \E email \in FindEmails : FindByEmail(email, "none")
  \/ \E fault \in Faults : FindByEmail("a@x", fault)
  \/ \E username \in FindUsernames : FindByUsername(username, "none")
  \/ \E fault \in Faults : FindByUsername("abc", fault)
  \/ \E id \in TargetIds, userData \in UpdateInputs : Update(id, userData, "none")
  \/ \E id \in IdsOnFault, userData \in UpdateInputsOnFault, fault \in Faults :
       Update(id, userData, fault)
  \/ \E id \in TargetIds : Delete(id, "none")
  \/ \E id \in IdsOnFault, fault \in Faults : Delete(id, fault)
  \/ Return(1)
  \/ Tick

Spec == Init /\ [][Next]_vars

(* ------------------------------ list and report queries ---------------- *)
\* The queries that read many rows, asked of every table the writes lead to.
\* The updates are those of the columns the queries select by.
QueryUpdateInputs ==
  {f \in UpdateInputs : Supplied(f, "role") \/ Supplied(f, "countryCode")}

NextQueries ==
  \/ \E userData \in CreateInputs : Create(userData, "none")
  \/ \E id \in TargetIds, userData \in QueryUpdateInputs :
       Update(id, userData, "none")
  \/ \E id \in TargetIds : Delete(id, "none")
  \/ \E role \in RoleNames : FindUsersByRole(role, "none")
  \/ \E fault \in Faults : FindUsersByRole("student", fault)
  \/ \E countryCode \in CountryNames : FindUsersByCountry(countryCode, "none")
  \/ \E fault \in Faults : FindUsersByCountry("RU", fault)
  \/ \E continent \in ContinentNames : FindUsersByContinent(continent, "none")
  \/ \E fault \in Faults : FindUsersByContinent("Asia", fault)
  \/ GetUserStatsByContinent("none")
  \/ \E fault \in Faults : GetUserStatsByContinent(fault)
  \/ CountUsers("none")
  \/ \E fault \in Faults : CountUsers(fault)
  \/ GetUserStatsByCountry("none")
  \/ \E fault \in Faults : GetUserStatsByCountry(fault)
  \/ Return(1)
  \/ Tick

SpecQueries == Init /\ [][NextQueries]_vars

(* ------------------------------ concurrent calls ----------------------- *)
\* A call reaches its await: the arguments are fixed, the statement has not
\* run yet.  Other callers' calls and statements may come in between.
Invoke(p, c) ==
  /\ calls[p].phase = "idle"
  /\ ncalls < MaxCalls
  /\ ncalls' = ncalls + 1
  /\ calls' = [calls EXCEPT ![p] = c]
  /\ UNCHANGED <<store, now, fresh, built>>

InvokeCreate(p, userData) ==
  /\ nextId <= MaxId
  /\ Invoke(p, Pending("create", NoId, userData, NewUser(userData)))
  /\ nextId' = nextId + 1

InvokeUpdate(p, id, userData) ==
  /\ Invoke(p, Pending("update", id, userData, NoUser))
  /\ UNCHANGED nextId

InvokeDelete(p, id) ==
  /\ Invoke(p, Pending("delete", id, UndefVO, NoUser))
  /\ UNCHANGED nextId

\* the storage engine runs the statement of p's call, atomically
Stmt(p, fault) ==
  /\ calls[p].phase = "pending"
  /\ LET r == Execute(calls[p], fault)
     IN /\ store' = r.store
        /\ calls' = [q \in Procs |->
                       IF q = p THEN Done(calls[p], fault, store, r.store, r.out)
                       ELSE IF calls[q].phase = "pending"
                         THEN [calls[q] EXCEPT !.raced = TRUE]
                       ELSE calls[q]]
        /\ fresh' = FreshAfter(calls[p], r)
  /\ UNCHANGED <<now, nextId, ncalls, built>>

\* Each concurrent caller makes one call, which writes the identity fields
\* or deletes.  The calls overlap within one reading of the clock.
ConcCreateInputs == {d \in CreateInputs : d.role = Role("student")}
\* the storage failing under concurrent callers: one kind of failure stands
\* for all, the catch blocks telling them apart are exercised one call at a time
ConcFaults == {"P1001"}
ConcUpdateInputs ==
  {f \in UpdateInputs : \A k \in FieldKeys \ UniqueFields : ~Supplied(f, k)}

NextConc ==
  \/ \E p \in Procs, userData \in ConcCreateInputs : InvokeCreate(p, userData)
  \/ \E p \in Procs, id \in Ids, userData \in ConcUpdateInputs :
       InvokeUpdate(p, id, userData)
  \/ \E p \in Procs, id \in Ids : InvokeDelete(p, id)
  \/ \E p \in Procs : Stmt(p, "none")
  \/ \E p \in Procs, fault \in ConcFaults : Stmt(p, fault)

SpecConc == Init /\ [][NextConc]_vars

(* ------------------------------ constructors --------------------------- *)
\* The value objects and the entity are built outside any repository call.
\* built records the input the constructor got, whether it threw, and for an
\* instance what each of its methods answers.

\* new CountryCode(value), then its continent methods
NewCountryCode(value) ==
  /\ built' =
       IF ~CountryCodeIsValid(value)
         THEN [op |-> "CountryCode", input |-> value, threw |-> TRUE]
         ELSE [op |-> "CountryCode", input |-> value, threw |-> FALSE,
               instance |-> CountryCode(value),
               isNorthAmerica |-> isNorthAmerica(value),
               isCentralAmericaAndCaribbean |-> isCentralAmericaAndCaribbean(value),
               isSouthAmerica |-> isSouthAmerica(value),
               isEurope |-> isEurope(value),
               isAsia |-> isAsia(value),
               isAfrica |-> isAfrica(value),
               isOceania |-> isOceania(value),
               isTranscontinental |-> isTranscontinental(value),
               getPrimaryContinent |-> getPrimaryContinent(value)]
  /\ UNCHANGED <<store, now, nextId, calls, ncalls, fresh>>

\* new Email(value) and new Email(other), then equals between the two
NewEmail(value, other) ==
  /\ built' =
       IF ~EmailIsValid(value) \/ ~EmailIsValid(other)
         THEN [op |-> "Email", input |-> value, other |-> other, threw |-> TRUE]
         ELSE [op |-> "Email", input |-> value, other |-> other, threw |-> FALSE,
               instance |-> Email(value),
               equals |-> EmailEquals(Email(value), Email(other))]
  /\ UNCHANGED <<store, now, nextId, calls, ncalls, fresh>>

\* the strings an Email is asked for: addresses in lower and upper case and
\* with blanks around, and a string that is no address
EmailInputs == {"a@x", "A@x", "b@x", " b@x ", "B@x", "abc"}

\* new PlainPassword(value)
NewPlainPassword(value) ==
  /\ built' =
       LET e == validatePassword(Chars(value))
       IN IF e # NoError
            THEN [op |-> "PlainPassword", input |-> value, threw |-> TRUE, error |-> e]
            ELSE [op |-> "PlainPassword", input |-> value, threw |-> FALSE,
                  instance |-> PlainPassword(value)]
  /\ UNCHANGED <<store, now, nextId, calls, ncalls, fresh>>

\* the strings a PlainPassword is asked for: for each choice among the four
\* kinds of character a password made of exactly those, passwords with a
\* character outside the permitted ones, with a dangerous one, with an
\* injection pattern and with a blank, and passwords at and beyond both lengths
PlainPasswordInputs ==
  {"        ",
   "aaaaaaaa",
   "AAAAAAAA",
   "aAaAaAaA",
   "11111111",
   "a1a1a1a1",
   "A1A1A1A1",
   "aA1aA1aA",
   "!!!!!!!!",
   "a!a!a!a!",
   "A!A!A!A!",
   "aA!aA!aA",
   "1!1!1!1!",
   "a1!a1!a1",
   "A1!A1!A1",
   "aA1!aA1!",
   "ValidPass123!",
   "password",
   "Abcdef1!~",
   "Abcdef1!<",
   "Only1=aB!",
   "Ab1!",
   "Pass word1!",
   "A1!aaaaaaaaaaaaaaaaaaaaaaaaaaaaaaaaaaaaaaaaaaaaaaaaaaaaaaaaaaaaaaaaaaaaaaaaaaaaaaaaaaaaaaaaaaaaaaaaa",
   "A1!aaaaaaaaaaaaaaaaaaaaaaaaaaaaaaaaaaaaaaaaaaaaaaaaaaaaaaaaaaaaaaaaaaaaaaaaaaaaaaaaaaaaaaaaaaaaaaaaaa"}

\* new HashedPassword(value)
NewHashedPassword(value) ==
  /\ built' =
       IF ~HashIsValid(value)
         THEN [op |-> "HashedPassword", input |-> value, threw |-> TRUE]
         ELSE [op |-> "HashedPassword", input |-> value, threw |-> FALSE,
               instance |-> HashedPassword(value)]
  /\ UNCHANGED <<store, now, nextId, calls, ncalls, fresh>>

\* the strings a HashedPassword is asked for: hashes of 60 characters with
\* each version letter and the costs at and around both limits, a hash with
\* white space around it, hashes one character short and long, and strings
\* that are no hash
HashInputs ==
  {"$2b$12$hhhhhhhhhhhhhhhhhhhhhhhhhhhhhhhhhhhhhhhhhhhhhhhhhhhhh",
   "$2a$04$/////////////////////////////////////////////////////",
   " $2a$04$/////////////////////////////////////////////////////",
   "$2a$10$hhhhhhhhhhhhhhhhhhhhhhhhhhhhhhhhhhhhhhhhhhhhhhhhhhhh",
   "$2y$31$.....................................................",
   "$2x$04$hhhhhhhhhhhhhhhhhhhhhhhhhhhhhhhhhhhhhhhhhhhhhhhhhhhhh",
   "$2b$03$hhhhhhhhhhhhhhhhhhhhhhhhhhhhhhhhhhhhhhhhhhhhhhhhhhhhh",
   "$2b$32$hhhhhhhhhhhhhhhhhhhhhhhhhhhhhhhhhhhhhhhhhhhhhhhhhhhhh",
   "$2c$10$hhhhhhhhhhhhhhhhhhhhhhhhhhhhhhhhhhhhhhhhhhhhhhhhhhhhh",
   "$2b$10$hhhhhhhhhhhhhhhhhhhhhhhhhhhhhhhhhhhhhhhhhhhhhhhhhhhhhh",
   "$2b$1$hhhhhhhhhhhhhhhhhhhhhhhhhhhhhhhhhhhhhhhhhhhhhhhhhhhhh",
   "$2b$10$hhhhhhhhhhhhhhhhhhhhhhhhhhhhhhhhhhhhhhhhhhhhhhhhhhh",
   "abc"}

\* A factory of User hands params to the private constructor, which keeps
\* them as the instance when validateConstructorParams passes and throws
\* otherwise.  usedUuid: the factory took its id from generateUUID().
Construct(op, args, params, usedUuid) ==
  /\ usedUuid => nextId <= MaxId
  /\ nextId' = IF usedUuid THEN nextId + 1 ELSE nextId
  /\ built' =
       IF ~validateConstructorParams(params)
         THEN [op |-> op, input |-> args, params |-> params, threw |-> TRUE]
         ELSE [op |-> op, input |-> args, params |-> params, threw |-> FALSE,
               instance |-> params, canLogin |-> UserCanLogin(params)]

NewUserCreate(a) ==
  /\ UNCHANGED <<store, now, calls, ncalls, fresh>>
  /\ Construct("create", a,
               UserCreate(a.email, a.username, a.passwordHash, a.role,
                          a.countryCode, a.status, a.id, nextId, now),
               a.id = NoId)

NewActiveUser(a) ==
  /\ UNCHANGED <<store, now, calls, ncalls, fresh>>
  /\ Construct("createActiveUser", a,
               createActiveUser(a.email, a.username, a.passwordHash, a.role,
                                a.countryCode, a.id, nextId, now),
               a.id = NoId)

NewSuspendedUser(a) ==
  /\ UNCHANGED <<store, now, calls, ncalls, fresh>>
  /\ Construct("createSuspendedUser", a,
               createSuspendedUser(a.email, a.username, a.passwordHash, a.role,
                                   a.countryCode, a.id, nextId, now),
               a.id = NoId)

NewBannedUser(a) ==
  /\ UNCHANGED <<store, now, calls, ncalls, fresh>>
  /\ Construct("createBannedUser", a,
               createBannedUser(a.email, a.username, a.passwordHash, a.role,
                                a.countryCode, a.id, nextId, now),
               a.id = NoId)

NewUserFromPersistence(a) ==
  /\ UNCHANGED <<store, now, calls, ncalls, fresh>>
  /\ Construct("fromPersistence", a,
               fromPersistence(a.id, a.email, a.username, a.passwordHash, a.role,
                               a.status, a.countryCode, a.lastLogin, a.createdAt,
                               a.updatedAt),
               FALSE)

\* The arguments the factories are called with: arguments of the declared
\* types, and the same with one of them missing, null or of another class
GoodArgs ==
  [email |-> Email("a@x"), username |-> Username("abc"),
   passwordHash |-> HashedPassword("$2b$12$hhhhhhhhhhhhhhhhhhhhhhhhhhhhhhhhhhhhhhhhhhhhhhhhhhhhh"),
   role |-> Role("student"), countryCode |-> CountryCode("ES"),
   status |-> createActive, id |-> 1]

WrongValues == {UndefVO, NullVO, Role("admin"), Email("b@x")}

CreateArgs ==
  {GoodArgs}
    \cup {[GoodArgs EXCEPT ![k] = v] :
            k \in {"email", "username", "passwordHash", "role", "countryCode", "status"},
            v \in WrongValues}
    \cup {[GoodArgs EXCEPT !.id = i] : i \in {NoId, BlankId, 2}}
    \cup {[GoodArgs EXCEPT !.id = i, !.countryCode = c, !.status = st] :
            i \in {NoId, BlankId}, c \in {UndefVO, Role("admin")},
            st \in {UndefVO, createBanned}}

\* for fromPersistence, the three dates as well: lastLogin null, a Date or
\* undefined, and createdAt and updatedAt in either order or missing
PersistenceArgs ==
  {[email |-> a.email, username |-> a.username, passwordHash |-> a.passwordHash,
    role |-> a.role, countryCode |-> a.countryCode, status |-> a.status,
    id |-> a.id, lastLogin |-> NoDate, createdAt |-> 0, updatedAt |-> 0] :
      a \in CreateArgs}
    \cup {[email |-> GoodArgs.email, username |-> GoodArgs.username,
           passwordHash |-> GoodArgs.passwordHash, role |-> GoodArgs.role,
           countryCode |-> c, status |-> GoodArgs.status, id |-> 1,
           lastLogin |-> l, createdAt |-> t1, updatedAt |-> t2] :
             c \in {NullVO, CountryCode("ES")}, l \in {NoDate, UndefDate, 0, 1},
             t1 \in {UndefDate, 0, 1}, t2 \in {UndefDate, 0, 1}}
    \cup {[email |-> GoodArgs.email, username |-> GoodArgs.username,
           passwordHash |-> GoodArgs.passwordHash, role |-> GoodArgs.role,
           countryCode |-> NullVO, status |-> st, id |-> 2,
           lastLogin |-> NoDate, createdAt |-> 0, updatedAt |-> 0] :
             st \in Statuses}

\* the strings a CountryCode is asked for: every code of the allowlist, and
\* strings the allowlist does not have
CountryCodeInputs == VALID_CODES \cup {"XX", "ru", "USA", ""}

NextValues ==
  \/ \E value \in CountryCodeInputs : NewCountryCode(value)
  \/ \E value \in HashInputs : NewHashedPassword(value)
  \/ \E value \in PlainPasswordInputs : NewPlainPassword(value)
  \/ \E value \in EmailInputs, other \in EmailInputs : NewEmail(value, other)
  \/ \E a \in CreateArgs : NewUserCreate(a)
  \/ \E a \in CreateArgs : NewActiveUser(a)
  \/ \E a \in CreateArgs : NewSuspendedUser(a)
  \/ \E a \in CreateArgs : NewBannedUser(a)
  \/ \E a \in PersistenceArgs : NewUserFromPersistence(a)

\* the constructors are called beside a repository whose table is empty
InitValues == Init /\ store = EmptyStore

SpecValues == InitValues /\ [][NextValues]_vars

(* ------------------------------ properties ----------------------------- *)
ErrorKinds == {"UserAlreadyExistsError", "DatabaseConnectionError",
               "UserRepositoryError"}

\* the call of the sequential caller whose result has not been taken yet
Finished(op) == calls[1].phase = "done" /\ calls[1].op = op

\* some row of st other than self holds value in column k
HeldByOther(st, self, k, value) ==
  \E i \in DOMAIN st \ {self} : st[i][k] = value

\* C1: a create whose email or username a stored user already has fails: with
\* a conflict error when the storage answered, and in every case no record is
\* added and every stored user keeps all its field values.
C1_DuplicateCreateFails ==
  LET c == calls[1]
  IN (/\ Finished("create")
      /\ \/ HeldByOther(c.before, NoId, "email", c.data.email.value)
         \/ HeldByOther(c.before, NoId, "username", c.data.username.value))
     => /\ c.out.kind \in ErrorKinds
        /\ c.fault = "none" => c.out.kind = "UserAlreadyExistsError"
        /\ store = c.before

\* a create with a new email and a taken username was refused as a conflict
C1_Witness ==
  LET c == calls[1]
  IN /\ Finished("create") /\ c.fault = "none"
     /\ ~HeldByOther(c.before, NoId, "email", c.data.email.value)
     /\ HeldByOther(c.before, NoId, "username", c.data.username.value)
     /\ c.out.kind = "UserAlreadyExistsError"
     /\ store = c.before

\* C2: no two stored users have the same email, and no two the same username.
C2_UniqueIdentity ==
  \A i \in DOMAIN store : \A j \in DOMAIN store :
    i # j => /\ store[i].email # store[j].email
             /\ store[i].username # store[j].username

\* two users are stored after an update that supplied the other user's
\* username was refused
C2_Witness ==
  LET c == calls[1]
  IN /\ Finished("update") /\ c.fault = "none"
     /\ c.id \in DOMAIN c.before
     /\ Supplied(c.data, "username")
     /\ HeldByOther(c.before, c.id, "username", c.data.username.value)
     /\ c.out.kind = "UserAlreadyExistsError"
     /\ Cardinality(DOMAIN store) >= 2

\* the record a write is for, and what it writes in a unique column
RecordOf(c) == IF c.op = "create" THEN c.user.id ELSE c.id
Writes(c, k) ==
  IF c.op = "create" THEN c.user[k].value
  ELSE IF c.op = "update" /\ Supplied(c.data, k) THEN c.data[k].value
  ELSE THROW
TookEffect(c) == c.out.kind = "user" \/ c.changed

\* C3: of two concurrent writes that would give two different records the
\* same email or the same username, at most one takes effect, and the one
\* whose statement finds the other's value stored gets a conflict error.
C3_ConcurrentWritesConflict ==
  \A p \in Procs : \A q \in Procs \ {p} :
    LET a == calls[p]
        b == calls[q]
    IN (/\ a.phase = "done" /\ b.phase = "done"
        /\ a.op \in {"create", "update"} /\ b.op \in {"create", "update"}
        /\ a.fault = "none" /\ b.fault = "none"
        /\ RecordOf(a) # RecordOf(b)
        /\ RecordOf(a) \in DOMAIN b.before
        /\ b.op = "update" => b.id \in DOMAIN b.before
        /\ \E k \in UniqueFields :
             /\ Writes(a, k) # THROW /\ Writes(a, k) = Writes(b, k)
             /\ b.before[RecordOf(a)][k] = Writes(b, k))
       => /\ b.out.kind = "UserAlreadyExistsError"
          /\ ~b.changed
          /\ ~(TookEffect(a) /\ TookEffect(b))

\* two creates of the same email were both waiting; the first was stored and
\* the second got the conflict
C3_Witness ==
  \E p \in Procs : \E q \in Procs \ {p} :
    LET a == calls[p]
        b == calls[q]
    IN /\ a.phase = "done" /\ b.phase = "done" /\ b.raced
       /\ a.op = "create" /\ b.op = "create"
       /\ a.out.kind = "user" /\ b.out.kind = "UserAlreadyExistsError"
       /\ a.data.email = b.data.email /\ a.data.username # b.data.username
       /\ a.user.id \in DOMAIN store /\ b.user.id \notin DOMAIN store

\* C4: a conflict error names the field that collided.
C4_ConflictNamesField ==
  LET c == calls[1]
  IN (c.phase = "done" /\ c.out.kind = "UserAlreadyExistsError")
       => c.out.field \in c.out.target

\* C5: a successful update leaves every field it was not given (updatedAt
\* aside) and every other stored user as they were.
C5_UpdateFrame ==
  LET c == calls[1]
  IN (Finished("update") /\ c.out.kind = "user")
     => /\ DOMAIN store = DOMAIN c.before
        /\ \A i \in DOMAIN store \ {c.id} : store[i] = c.before[i]
        /\ \A k \in DOMAIN store[c.id] \ {"updatedAt"} :
             (k \notin FieldKeys \/ ~Supplied(c.data, k))
                => store[c.id][k] = c.before[c.id][k]

\* an update of one user's role went through next to another stored user who
\* has a country code
C5_Witness ==
  LET c == calls[1]
  IN /\ Finished("update") /\ c.out.kind = "user"
     /\ Supplied(c.data, "role")
     /\ store[c.id].role # c.before[c.id].role
     /\ store[c.id].countryCode # NULL
     /\ \E i \in DOMAIN store \ {c.id} : store[i] = c.before[i]

\* C6: update of an id that is not stored returns null when the storage
\* answered, and leaves the store as it was.
C6_UpdateMissingIsNull ==
  LET c == calls[1]
  IN (Finished("update") /\ c.id \notin DOMAIN c.before)
     => /\ c.fault = "none" => c.out.kind = "null"
        /\ store = c.before

\* an update that supplied a stored user's email for a missing id gave null
C6_Witness ==
  LET c == calls[1]
  IN /\ Finished("update") /\ c.id \notin DOMAIN c.before
     /\ c.fault = "none" /\ c.out.kind = "null"
     /\ Supplied(c.data, "email")
     /\ HeldByOther(c.before, c.id, "email", c.data.email.value)
     /\ store = c.before

\* C7: delete resolves when the storage answered, whether or not the id is
\* stored; afterwards the id is not stored and the other users are as before.
C7_DeleteIdempotent ==
  LET c == calls[1]
  IN (Finished("delete") /\ c.fault = "none")
     => /\ c.out.kind = "void"
        /\ store = [i \in DOMAIN c.before \ {c.id} |-> c.before[i]]

\* a delete of an id that was stored once and is not any more resolved, next
\* to a user that stayed
C7_Witness ==
  LET c == calls[1]
  IN /\ Finished("delete") /\ c.fault = "none"
     /\ c.id < nextId /\ c.id \notin DOMAIN c.before
     /\ c.out.kind = "void"
     /\ store = c.before /\ store # EmptyStore

\* C8: findById of a user create returned gives an entity with the same id,
\* email, username, passwordHash, role, status, countryCode, lastLogin,
\* createdAt and updatedAt.
C8_RoundTrip ==
  LET c == calls[1]
  IN (Finished("findById") /\ c.fault = "none" /\ c.id \in DOMAIN fresh)
     => /\ c.out.kind = "user"
        /\ \A k \in {"id", "email", "username", "passwordHash", "role", "status",
                     "countryCode", "lastLogin", "createdAt", "updatedAt"} :
             c.out.user[k] = fresh[c.id][k]

\* a user created with a country code and a hash given with a leading blank
\* was read back
C8_Witness ==
  LET c == calls[1]
  IN /\ Finished("findById") /\ c.fault = "none" /\ c.id \in DOMAIN fresh
     /\ c.out.kind = "user"
     /\ c.out.user = fresh[c.id]
     /\ c.out.user.countryCode = CountryCode("RU")
     /\ c.out.user.passwordHash =
          HashedPassword(" $2a$04$/////////////////////////////////////////////////////")

\* the stored users a find call is for
Matches(c) ==
  {i \in DOMAIN c.before :
     CASE c.op = "findById" -> c.before[i].id = c.id
       [] c.op = "findByEmail" -> c.before[i].email = c.data
       [] c.op = "findByUsername" -> c.before[i].username = c.data}

\* C9: a find returns null exactly when the storage answered and no stored
\* user has the key; a storage failure is an error, a missing user is not.
C9_NullIffNotFound ==
  LET c == calls[1]
  IN (c.phase = "done" /\ c.op \in {"findById", "findByEmail", "findByUsername"})
     => /\ c.out.kind = "null" <=> (c.fault = "none" /\ Matches(c) = {})
        /\ c.fault # "none" => c.out.kind \in ErrorKinds
        /\ store = c.before

\* a find by email got null from a store that holds users
C9_Witness ==
  LET c == calls[1]
  IN /\ Finished("findByEmail") /\ c.fault = "none"
     /\ c.before # EmptyStore /\ Matches(c) = {}
     /\ c.out.kind = "null"

AllowedTransitions ==
  {<<"confirmation_pending", "active">>, <<"confirmation_pending", "suspended">>,
   <<"confirmation_pending", "banned">>, <<"active", "suspended">>,
   <<"active", "banned">>, <<"suspended", "active">>, <<"suspended", "banned">>}

\* C10: no call changes a stored user's status other than along the allowed
\* transitions, and a banned user stays banned for as long as it is stored.
C10_StatusTransitions ==
  LET c == calls[1]
  IN c.phase = "done"
     => \A i \in DOMAIN c.before \cap DOMAIN store :
          /\ \/ store[i].status = c.before[i].status
             \/ <<c.before[i].status, store[i].status>> \in AllowedTransitions
          /\ c.before[i].status = "banned" => store[i].status = "banned"
          /\ (c.out.kind = "user" /\ c.out.user.id = i)
                => c.out.user.status.value = store[i].status

\* an update that supplied status active went through on a banned user
C10_Witness ==
  LET c == calls[1]
  IN /\ Finished("update") /\ c.out.kind = "user"
     /\ c.before[c.id].status = "banned"
     /\ c.data.status = UserStatus("active")
     /\ store[c.id].status = "banned"

\* C11: whatever the operation, a call that failed because the storage could
\* not be reached (P1001) ends with an error kind other than the one the same
\* call ends with when the storage was reached and rejected the statement.
C11_UnreachableDistinct ==
  LET c == calls[1]
  IN (c.phase = "done" /\ c.fault = "P1001")
     => /\ c.out.kind \in ErrorKinds
        /\ c.out.kind # ExecuteOn(c.before, now, c, "Other").out.kind

\* the stored rows a read call makes value objects of
Converted(c) ==
  {c.before[i] : i \in
     {j \in DOMAIN c.before :
        CASE c.op = "findById" -> c.before[j].id = c.id
          [] c.op = "findByEmail" -> c.before[j].email = c.data
          [] c.op = "findByUsername" -> c.before[j].username = c.data
          [] c.op = "findUsersByRole" -> c.before[j].role = c.data
          [] c.op = "findUsersByCountry" -> c.before[j].countryCode = c.data
          [] c.op \in {"findUsersByContinent", "getUserStatsByContinent"} ->
               c.before[j].countryCode # NULL
          [] OTHER -> FALSE}}

\* the construction the call makes of the row throws
ConstructionFails(c, row) ==
  IF c.op \in {"findUsersByContinent", "getUserStatsByContinent"}
    THEN ~CountryCodeIsValid(row.countryCode)
    ELSE mapToUserThrows(row)

\* C12: a find, list or report call that reads a stored row from which a value
\* object or a User cannot be made ends with an error, never with a result.
C12_ConstructionErrorsPropagate ==
  LET c == calls[1]
  IN (/\ c.phase = "done" /\ c.fault = "none"
      /\ \E row \in Converted(c) : ConstructionFails(c, row))
     => c.out.kind \in ErrorKinds

BuiltCountryCode(value) ==
  built.op = "CountryCode" /\ built.input = value /\ ~built.threw

\* the continent predicates that answered true for the instance built
ContinentsOfBuilt ==
  {k \in {"isNorthAmerica", "isCentralAmericaAndCaribbean", "isSouthAmerica",
          "isEurope", "isAsia", "isAfrica", "isOceania"} : built[k]}

\* C17: each of the codes RU, TR, CY, GE, AM, AZ and KZ makes two of the seven
\* continent predicates true at the same time.
C17_TwoPredicates ==
  \A value \in {"RU", "TR", "CY", "GE", "AM", "AZ", "KZ"} :
    BuiltCountryCode(value) => Cardinality(ContinentsOfBuilt) = 2

\* the continent name each predicate stands for
ContinentName ==
  [isNorthAmerica |-> "North America",
   isCentralAmericaAndCaribbean |-> "Central America and Caribbean",
   isSouthAmerica |-> "South America", isEurope |-> "Europe", isAsia |-> "Asia",
   isAfrica |-> "Africa", isOceania |-> "Oceania"]

\* C18: for every code of the allowlist at least one of the seven continent
\* predicates holds, and getPrimaryContinent() answers the name of a continent
\* whose predicate holds for the code, never 'Unknown'.
C18_PrimaryContinentIsAMember ==
  \A value \in VALID_CODES :
    BuiltCountryCode(value)
      => /\ ContinentsOfBuilt # {}
         /\ built.getPrimaryContinent # "Unknown"
         /\ \E k \in ContinentsOfBuilt : ContinentName[k] = built.getPrimaryContinent

C18_Witness ==
  /\ BuiltCountryCode("KZ")
  /\ built.isTranscontinental
  /\ built.getPrimaryContinent = "Asia"

\* C19: for each of RU, TR and CY, getPrimaryContinent() answers 'Asia' while
\* isEurope(), isAsia() and isTranscontinental() are all true.
C19_AsiaOverridesEurope ==
  \A value \in {"RU", "TR", "CY"} :
    BuiltCountryCode(value)
      => /\ built.getPrimaryContinent = "Asia"
         /\ built.isEurope
         /\ built.isAsia
         /\ built.isTranscontinental

C19_Witness ==
  /\ BuiltCountryCode("CY")
  /\ built.isEurope
  /\ built.getPrimaryContinent = "Asia"

\* value has the form the claim describes, once the white space around it is
\* dropped: $2a$, $2b$, $2x$ or $2y$, a two-digit cost between 4 and 31, a $
\* and the hash body, 59 or 60 characters in all
WellFormedHash(value) ==
  LET t == trim(value)
  IN /\ Len(t) \in {59, 60}
     /\ t[1] = "$" /\ t[2] = "2" /\ t[3] \in {"a", "b", "x", "y"} /\ t[4] = "$"
     /\ t[5] \in Digits /\ t[6] \in Digits /\ t[7] = "$"
     /\ 10 * DigitValue(t[5]) + DigitValue(t[6]) \in 4..31
     /\ \A i \in 8..Len(t) : t[i] \in HashBodyChars

\* C20: new HashedPassword(value) makes an instance exactly when value is
\* $2a$, $2b$, $2x$ or $2y$, a two-digit cost between 4 and 31 and the hash
\* body, 59 or 60 characters in all; well-formed hashes of both lengths are
\* accepted, and a cost below 4 or above 31 is rejected.
C20_AcceptsExactlyWellFormed ==
  built.op = "HashedPassword"
    => (~built.threw <=> WellFormedHash(Chars(built.input)))

UserFactories == {"create", "createActiveUser", "createSuspendedUser",
                  "createBannedUser", "fromPersistence"}

\* what the claim asks of a User: a non-empty id, an instance of its class in
\* each typed field (countryCode and lastLogin may be null), and updatedAt
\* not earlier than createdAt
EntityInvariant(u) ==
  /\ u.id \notin {NoId, BlankId}
  /\ u.email.type = "Email"
  /\ u.username.type = "Username"
  /\ u.passwordHash.type = "HashedPassword"
  /\ u.role.type = "Role"
  /\ u.status.type = "UserStatus"
  /\ (u.countryCode = NullVO \/ u.countryCode.type = "CountryCode")
  /\ (u.lastLogin = NoDate \/ u.lastLogin >= 0)
  /\ u.createdAt >= 0
  /\ u.updatedAt >= u.createdAt

\* C14: every User a factory (create, createActiveUser, createSuspendedUser,
\* createBannedUser, fromPersistence) hands back has a non-empty id, a value
\* object in each typed field (countryCode and lastLogin may be null) and
\* updatedAt not earlier than createdAt; when the fields the factory came to
\* would not satisfy that, it throws and no instance is produced.
C14_FactoriesKeepInvariant ==
  built.op \in UserFactories
    => /\ ~built.threw => EntityInvariant(built.instance)
       /\ ~EntityInvariant(built.params)
            => built.threw /\ "instance" \notin DOMAIN built

C14_Witness ==
  /\ built.op = "fromPersistence"
  /\ built.params.createdAt >= 0
  /\ built.params.updatedAt >= 0
  /\ built.params.updatedAt < built.params.createdAt
  /\ built.threw

\* u is as create leaves a new user: confirmation pending, never logged in,
\* with the given role and one time for createdAt and updatedAt
AsCreated(u, role) ==
  /\ u.status = createPendingConfirmation
  /\ u.lastLogin = NoDate
  /\ u.role = role
  /\ u.createdAt = u.updatedAt

\* C15: a user created through repository create and not updated since is
\* stored, and findById, findByEmail and findByUsername return it, with
\* status confirmation_pending, lastLogin null, the role that was supplied
\* and createdAt equal to updatedAt.
C15_CreatedUserDefaults ==
  LET c == calls[1]
  IN /\ (Finished("create") /\ c.out.kind = "user")
          => /\ AsCreated(c.out.user, c.data.role)
             /\ c.out.user.id \in DOMAIN fresh
     /\ \A i \in DOMAIN fresh :
          /\ i \in DOMAIN store
          /\ store[i].status = "confirmation_pending"
          /\ store[i].lastLogin = NoDate
          /\ store[i].role = fresh[i].role.value
          /\ store[i].createdAt = store[i].updatedAt
     /\ (/\ c.phase = "done"
         /\ c.op \in {"findById", "findByEmail", "findByUsername"}
         /\ c.fault = "none")
          => \A i \in Matches(c) \cap DOMAIN fresh :
               /\ c.out.kind = "user"
               /\ c.out.user.id = i
               /\ AsCreated(c.out.user, fresh[i].role)

\* an admin created at a later reading of the clock was found by its email
C15_Witness ==
  LET c == calls[1]
  IN /\ Finished("findByEmail") /\ c.fault = "none"
     /\ \E i \in Matches(c) \cap DOMAIN fresh :
          /\ c.out.kind = "user"
          /\ c.out.user.id = i
          /\ c.out.user.role = Role("admin")
          /\ c.out.user.status = createPendingConfirmation
          /\ c.out.user.createdAt > 0

\* the ids of the rows of st whose country code makes a CountryCode with
\* primary continent k
InContinent(st, k) ==
  {i \in DOMAIN st :
     /\ st[i].countryCode # NULL
     /\ CountryCodeIsValid(st[i].countryCode)
     /\ getPrimaryContinent(st[i].countryCode) = k}

AllContinentNames ==
  {"North America", "Central America and Caribbean", "South America",
   "Europe", "Asia", "Africa", "Oceania", "Unknown"}

\* C16: findUsersByContinent(k) returns exactly the stored users whose
\* country code c gives CountryCode(c).getPrimaryContinent() = k, and
\* getUserStatsByContinent() counts each user that has a country code under
\* that same primary continent.
C16_ContinentQueriesUsePrimary ==
  LET c == calls[1]
  IN /\ (Finished("findUsersByContinent") /\ c.fault = "none")
          => /\ c.out.kind = "users"
             /\ c.out.users = {mapToUser(c.before[i]) : i \in InContinent(c.before, c.data)}
     /\ (Finished("getUserStatsByContinent") /\ c.fault = "none")
          => /\ c.out.kind = "stats"
             /\ DOMAIN c.out.stats = {k \in AllContinentNames : InContinent(c.before, k) # {}}
             /\ \A k \in DOMAIN c.out.stats :
                  c.out.stats[k] = Cardinality(InContinent(c.before, k))

\* the Asian users were asked for while a Russian user was stored next to a
\* user without a usable country code, and Europe got none of them
C16_Witness ==
  LET c == calls[1]
  IN /\ Finished("findUsersByContinent") /\ c.fault = "none"
     /\ c.data = "Asia"
     /\ Cardinality(DOMAIN c.before) >= 2
     /\ \E i \in DOMAIN c.before : c.before[i].countryCode = "RU"
     /\ \E u \in c.out.users : u.countryCode = CountryCode("RU")
     /\ Cardinality(c.out.users) < Cardinality(DOMAIN c.before)

\* a PlainPassword was asked for from a string of 8 to 100 characters
BuiltPassword ==
  /\ built.op = "PlainPassword"
  /\ Len(Chars(built.input)) \in 8..100

\* the categories value has no character of, by number: 1 lowercase letter,
\* 2 uppercase letter, 3 digit, 4 allowed special character
MissingCategories(value) ==
  {n \in 1..4 :
     ~\E i \in 1..Len(value) :
        value[i] \in (CASE n = 1 -> Range(LowerLetters) [] n = 2 -> Range(UpperLetters)
                        [] n = 3 -> Digits [] n = 4 -> ALLOWED_SPECIAL_CHARS)}

\* the construction failed exactly when a category is missing, with one error
\* that lists every missing category
FailsListingAllMissing ==
  LET value == Chars(built.input)
  IN /\ built.threw <=> MissingCategories(value) # {}
     /\ built.threw
          => /\ built.error.kind = "missing"
             /\ Range(built.error.missing) =
                  {Requirements[n] : n \in MissingCategories(value)}

\* C21: for every password of 8 to 100 characters that contains no dangerous
\* character (control, angle, quote, backtick) and no injection pattern,
\* PlainPassword construction fails exactly when at least one of the four
\* categories is missing, and the single error lists every missing category.
C21_MissingCategoriesListed ==
  LET value == Chars(built.input)
  IN (/\ BuiltPassword
      /\ \A i \in 1..Len(value) : value[i] \notin PasswordDangerousChars
      /\ ~hasInjectionPatterns(value))
       => FailsListingAllMissing

\* C21 as amended: the same for every password of 8 to 100 characters made
\* only of letters, digits, allowed special characters and white space that
\* is no control character, and holding no injection pattern.
C21_Amended ==
  LET value == Chars(built.input)
  IN (/\ BuiltPassword
      /\ \A i \in 1..Len(value) :
           /\ value[i] \in AlphaNum \cup ALLOWED_SPECIAL_CHARS \cup WhiteSpace
           /\ value[i] \notin PasswordDangerousChars
      /\ ~hasInjectionPatterns(value))
       => FailsListingAllMissing

\* a password of lowercase letters only was refused with its three missing
\* categories in one error
C21_Witness ==
  /\ BuiltPassword
  /\ built.input = "password"
  /\ built.threw
  /\ built.error.kind = "missing"
  /\ Len(built.error.missing) = 3

\* two Email objects were built, from the strings built.input and built.other
BuiltEmails == built.op = "Email" /\ ~built.threw

\* the two strings differ in the case of their letters only
SameButCase(s, t) == toLowerCase(Chars(s)) = toLowerCase(Chars(t))

\* C22: for every valid email string e, Email(e).value is e in lower case,
\* and two valid email strings that differ only in letter case make Email
\* objects that are equal under equals().
C22_LowerCasedValue ==
  BuiltEmails
    => /\ Chars(built.instance.value) = toLowerCase(Chars(built.input))
       /\ SameButCase(built.input, built.other) => built.equals

\* C22 as amended: for every valid email string e, Email(e).value is e in
\* lower case with the white space around it removed, and two valid email
\* strings that differ only in letter case make Email objects that are equal
\* under equals().
C22_Amended ==
  BuiltEmails
    => /\ Chars(built.instance.value) = trim(toLowerCase(Chars(built.input)))
       /\ SameButCase(built.input, built.other) => built.equals

\* an address in upper case and the same address in lower case were built
C22_Witness ==
  /\ BuiltEmails
  /\ built.input = "A@x"
  /\ built.other = "a@x"
  /\ built.instance.value = "a@x"
  /\ built.equals

\* C23: countUsers() returns the number of stored users: 0 for an empty
\* store, one more after each successful create, one fewer after each delete
\* of a stored id, and the same after a failed create, an update, or a delete
\* of an id that is not stored.
C23_CountIsStoreSize ==
  LET c == calls[1]
      size == Cardinality(DOMAIN store)
      sizeBefore == Cardinality(DOMAIN c.before)
  IN /\ (Finished("countUsers") /\ c.fault = "none")
          => /\ c.out.kind = "count"
             /\ c.out.count = size
             /\ store = EmptyStore => c.out.count = 0
     /\ Finished("create")
          => size = IF c.out.kind = "user" THEN sizeBefore + 1 ELSE sizeBefore
     /\ Finished("delete")
          => size = IF c.id \in DOMAIN c.before /\ c.out.kind = "void"
                      THEN sizeBefore - 1 ELSE sizeBefore
     /\ Finished("update") => size = sizeBefore

\* two users were counted, one of them not active
C23_Witness ==
  LET c == calls[1]
  IN /\ Finished("countUsers") /\ c.fault = "none"
     /\ c.out.count = 2
     /\ \E i \in DOMAIN store : store[i].status # "active"

ReportQueries ==
  {"countUsers", "findUsersByRole", "findUsersByCountry", "findUsersByContinent",
   "getUserStatsByContinent", "getUserStatsByCountry"}

\* C24: countUsers, findUsersByRole, findUsersByCountry, findUsersByContinent,
\* getUserStatsByContinent and getUserStatsByCountry never change the store:
\* the stored users and all their field values are the same after the call
\* as before, whether the call returns or fails.
C24_ReportQueriesReadOnly ==
  LET c == calls[1]
  IN (c.phase = "done" /\ c.op \in ReportQueries)
       => /\ store = c.before
          /\ ~c.changed

\* the report by country returned its counts over a table that holds a row
\* with an unusable country code
C24_Witness ==
  LET c == calls[1]
  IN /\ Finished("getUserStatsByCountry") /\ c.fault = "none"
     /\ c.out.kind = "stats"
     /\ "XX" \in DOMAIN c.out.stats
     /\ store = c.before

\* C25: for every User, however it was built (create, createActiveUser,
\* createSuspendedUser, createBannedUser, or fromPersistence, which is how
\* the repository builds what it reads back), canLogin() is true if and only
\* if its status is active.
C25_OnlyActiveCanLogin ==
  (built.op \in UserFactories /\ ~built.threw)
    => (built.canLogin <=> built.instance.status.value = "active")

\* a user read from a row with status confirmation_pending may not log in
C25_Witness ==
  /\ built.op = "fromPersistence"
  /\ ~built.threw
  /\ built.instance.status.value = "confirmation_pending"
  /\ ~built.canLogin

\* C26: after update(id, fields) succeeds on a stored user, each supplied
\* field, status and lastLogin included, has the supplied value in the
\* returned user and in the user a following findById(id) gives (the stored
\* row mapped back); so update(id, {status: active}) moves a user stored as
\* confirmation_pending to active.
C26_SuppliedFieldsTakeEffect ==
  LET c == calls[1]
  IN (Finished("update") /\ c.fault = "none" /\ c.out.kind = "user")
       => \A k \in FieldKeys :
            Supplied(c.data, k)
              => /\ c.out.user[k] = c.data[k]
                 /\ findById(store, c.id, "none").out.user[k] = c.data[k]

\* C27: when update(id, fields) fails with a conflict because a supplied email
\* or username already belongs to another stored user, no field of the user
\* id and no field of the other user is changed.
C27_ConflictChangesNothing ==
  LET c == calls[1]
      holders == {i \in DOMAIN c.before \ {c.id} :
                    \E k \in UniqueFields :
                      Supplied(c.data, k) /\ c.before[i][k] = c.data[k].value}
  IN (Finished("update") /\ c.out.kind = "UserAlreadyExistsError")
       => /\ DOMAIN store = DOMAIN c.before
          /\ \A i \in {c.id} \cup holders : store[i] = c.before[i]

\* an update that supplied the user's own email and a username another user
\* holds failed with the conflict, at a later reading of the clock than the
\* one the rows were written at
C27_Witness ==
  LET c == calls[1]
  IN /\ Finished("update") /\ c.out.kind = "UserAlreadyExistsError"
     /\ c.id \in DOMAIN c.before
     /\ Supplied(c.data, "email") /\ Supplied(c.data, "username")
     /\ ~HeldByOther(c.before, c.id, "email", c.data.email.value)
     /\ HeldByOther(c.before, c.id, "username", c.data.username.value)
     /\ now > c.before[c.id].updatedAt
     /\ store = c.before

\* C28: after create stores a user with Email(e), findByEmail(x) returns that
\* user for every string x that differs from e only in letter case.
C28_FindByEmailIgnoresCase ==
  LET c == calls[1]
  IN (Finished("findByEmail") /\ c.fault = "none")
       => \A i \in DOMAIN fresh \cap DOMAIN c.before :
            (\E e \in Strings :
               /\ EmailIsValid(e)
               /\ EmailValue[e] = c.before[i].email
               /\ SameButCase(c.data, e))
              => c.out.kind = "user" /\ c.out.user.id = i

\* u is an update and d a delete of the same user, both finished without a
\* storage failure, made while the user was stored (with a row the
\* repository can read as a User) and overlapping: one of them was waiting
\* to make its statement while the other's ran
UpdateRacedDelete(u, d) ==
  LET found == IF u.raced THEN d.before ELSE u.before
  IN /\ u.phase = "done" /\ d.phase = "done"
     /\ u.op = "update" /\ d.op = "delete" /\ u.id = d.id
     /\ u.fault = "none" /\ d.fault = "none"
     /\ u.raced \/ d.raced
     /\ u.id \in DOMAIN found
     /\ ~mapToUserThrows(found[u.id])

\* C29: when update(id, fields) and delete(id) run concurrently on the same
\* stored user, in every interleaving update returns the updated user or null
\* and raises no error, delete resolves without error, and at the end no
\* user with that id is stored.  (The update is one whose email and username
\* no other stored user holds, so that only the race is at play.)
C29_UpdateDeleteRace ==
  \A p \in Procs : \A q \in Procs \ {p} :
    LET u == calls[p]
        d == calls[q]
    IN (/\ UpdateRacedDelete(u, d)
        /\ \A k \in UniqueFields :
             Supplied(u.data, k) => ~HeldByOther(u.before, u.id, k, u.data[k].value))
         => /\ u.out.kind \in {"user", "null"}
            /\ u.out.kind = "user" => u.out.user.id = u.id
            /\ d.out.kind = "void"
            /\ u.id \notin DOMAIN store

\* the delete ran while the update was waiting, and the update found nothing
C29_Witness ==
  \E p \in Procs : \E q \in Procs \ {p} :
    LET u == calls[p]
        d == calls[q]
    IN /\ UpdateRacedDelete(u, d)
       /\ u.raced
       /\ u.id \notin DOMAIN u.before
       /\ u.out.kind = "null"
       /\ d.out.kind = "void"
       /\ store # EmptyStore

\* the sum of the counts of a report
RECURSIVE SumOver(_, _)
SumOver(stats, keys) ==
  IF keys = {} THEN 0
  ELSE LET k == CHOOSE x \in keys : TRUE
       IN stats[k] + SumOver(stats, keys \ {k})
Total(stats) == SumOver(stats, DOMAIN stats)

\* the stored users that have a country code
WithCountry(st) == {i \in DOMAIN st : st[i].countryCode # NULL}

\* C30: in every reachable store state, the values of
\* getUserStatsByContinent() and the values of getUserStatsByCountry() both
\* add up to the number of stored users that have a country code.
C30_StatsAddUp ==
  LET c == calls[1]
  IN (/\ c.phase = "done"
      /\ c.op \in {"getUserStatsByContinent", "getUserStatsByCountry"}
      /\ c.fault = "none")
       => /\ c.out.kind = "stats"
          /\ Total(c.out.stats) = Cardinality(WithCountry(c.before))

====
